---- MODULE Spec2Model ----
(***************************************************************************)
(* QTask: a partitioned task queue over Redis Streams.                     *)
(*                                                                         *)
(* The module models the Partitioner, the partitioned Publisher, the       *)
(* partitioned Consumer (read loop, reclaim ticker, message                *)
(* reconstruction, ack closure), the ConsumerManager (assignment,          *)
(* registration, handler wiring) and the part of the stream store          *)
(* (XADD, XGROUP CREATE, XREADGROUP, XAUTOCLAIM, XACK) these rely on.       *)
(*                                                                         *)
(* JavaScript values are tagged records of one shape, so that values of    *)
(* different JavaScript types can be compared:                             *)
(*   scalar  [t, s, n]         t in "str" "num" "bool" "null" "undef"      *)
(*   payload [t, s, n, props]  t as above, or "obj" / "arr" with props a   *)
(*                             sequence of [k, v] in property order        *)
(* Strings that are hashed (partition keys) are sequences of UTF-16 code   *)
(* units.                                                                  *)
(***************************************************************************)
EXTENDS Integers, Sequences, FiniteSets, Bags, TLC

\* ------------------------------------------------------------------ bounds

\* Partitions of the logical topic (QTask option TOTAL_PARTITIONS).
TotalPartitions == 2
\* Worker processes of the fleet.
NumProcs == 2
\* Entries appended to the store in one run.
MaxEntries == 2
\* Reclaim ticks (setInterval callbacks) that claim entries in one run.
MaxTicks == 1
\* Idle time, in units of minIdleTimeMs, beyond which idle time is not counted.
MinIdle == 1
\* Publish calls in one run of the publisher specification.
MaxPublishes == 2
\* Largest totalPartitions / instanceCount of the assignment specification.
MaxAssignPartitions == 5
MaxAssignInstances == 4
\* Largest totalPartitions of the publisher specification.
MaxPubPartitions == 4
\* Longest generated key, largest totalPartitions and calls of getPartition
\* on one instance in the partitioner specification.
MaxKeyLength == 6
MaxHashPartitions == 3
MaxAsks == 2
\* Calls of the QTask interface in one run of the lifecycle specification.
MaxCalls == 4

\* ------------------------------------------------------- program constants

\* XAUTOCLAIM ... COUNT 10
ClaimCount == 10

BaseTopic == "T"
Group == "g"

\* -------------------------------------------------------- JavaScript values

Str(s) == [t |-> "str", s |-> s, n |-> 0]
Num(n) == [t |-> "num", s |-> "", n |-> n]
Bool(b) == [t |-> "bool", s |-> IF b THEN "true" ELSE "false", n |-> 0]
Null == [t |-> "null", s |-> "", n |-> 0]
Undef == [t |-> "undef", s |-> "", n |-> 0]

Prop(k, v) == [k |-> k, v |-> v]
Scalar(v) == [t |-> v.t, s |-> v.s, n |-> v.n, props |-> <<>>]
Obj(props) == [t |-> "obj", s |-> "", n |-> 0, props |-> props]
Arr(items) == [t |-> "arr", s |-> "", n |-> 0,
               props |-> [i \in DOMAIN items |-> Prop("", items[i])]]

\* value === undefined || value === null
IsNullish(v) == v.t \in {"null", "undef"}

\* Keys that are canonical array indices come first in property order.
IntegerKeys == <<"0", "1", "2">>
IsIntegerKey(k) == \E i \in DOMAIN IntegerKeys : IntegerKeys[i] = k
IntegerKeyRank(k) == CHOOSE i \in DOMAIN IntegerKeys : IntegerKeys[i] = k

\* obj[k] = v by CreateDataProperty (object literal, JSON.parse): an existing key
\* keeps its place, an integer key is placed in ascending order before all
\* string keys, any other key is appended.
RECURSIVE InsertIntegerKey(_, _, _)
InsertIntegerKey(props, k, v) ==
    IF props = <<>> THEN <<Prop(k, v)>>
    ELSE IF IsIntegerKey(Head(props).k)
            /\ IntegerKeyRank(Head(props).k) < IntegerKeyRank(k)
         THEN <<Head(props)>> \o InsertIntegerKey(Tail(props), k, v)
         ELSE <<Prop(k, v)>> \o props

HasKey(props, k) == \E i \in DOMAIN props : props[i].k = k

ObjDefine(props, k, v) ==
    IF HasKey(props, k)
    THEN [i \in DOMAIN props |-> IF props[i].k = k THEN Prop(k, v) ELSE props[i]]
    ELSE IF IsIntegerKey(k) THEN InsertIntegerKey(props, k, v)
    ELSE Append(props, Prop(k, v))

\* obj[k] = v by assignment on an object created as {}: the key "__proto__" is
\* the accessor inherited from Object.prototype, whose setter ignores a value
\* that is neither an object nor null and creates no own property.
ObjSet(props, k, v) ==
    IF k = "__proto__" THEN props ELSE ObjDefine(props, k, v)

\* Object.entries(obj).flat(): keys and values in property order.
RECURSIVE EntriesFlat(_)
EntriesFlat(props) ==
    IF props = <<>> THEN <<>>
    ELSE <<Str(Head(props).k), Head(props).v>> \o EntriesFlat(Tail(props))

\* JSON.stringify of a scalar; undefined is handled by the caller.
JsonScalar(v) ==
    CASE v.t = "str" -> "\"" \o v.s \o "\""
      [] v.t = "num" -> ToString(v.n)
      [] v.t = "bool" -> v.s
      [] OTHER -> "null"

\* The members of an object: a property whose value is undefined is left out.
RECURSIVE JsonMembers(_, _)
JsonMembers(props, first) ==
    IF props = <<>> THEN ""
    ELSE IF Head(props).v.t = "undef" THEN JsonMembers(Tail(props), first)
    ELSE (IF first THEN "" ELSE ",")
         \o "\"" \o Head(props).k \o "\":" \o JsonScalar(Head(props).v)
         \o JsonMembers(Tail(props), FALSE)

\* The elements of an array: undefined is written as null.
RECURSIVE JsonElements(_, _)
JsonElements(props, first) ==
    IF props = <<>> THEN ""
    ELSE (IF first THEN "" ELSE ",") \o JsonScalar(Head(props).v)
         \o JsonElements(Tail(props), FALSE)

JsonStringify(p) ==
    CASE p.t = "obj" -> "{" \o JsonMembers(p.props, TRUE) \o "}"
      [] p.t = "arr" -> "[" \o JsonElements(p.props, TRUE) \o "]"
      [] OTHER -> JsonScalar(p)

\* What the store keeps of an XADD argument: its text (String(arg)).
ToRedisString(v) ==
    CASE v.t = "str" -> v.s
      [] v.t = "num" -> ToString(v.n)
      [] v.t = "bool" -> v.s
      [] OTHER -> ""

\* ------------------------------------------------------------- Partitioner

\* A 32-bit word as two 16-bit halves (TLC's integers are 32 bits wide, so the
\* wrap-around is computed on the halves).
Half == 65536
Word(hi, lo) == [hi |-> hi, lo |-> lo]

\* A step that shifts by four bits: hash = ((hash << 4) - hash) + char.
HashStepShift4(w, char) ==
    LET lo == 15 * w.lo + char
        hi == 15 * w.hi + (lo \div Half)
    IN  Word(hi % Half, lo % Half)

\* hash = ((hash << 5) - hash) + char; hash |= 0
HashStep(w, char) ==
    LET lo == 31 * w.lo + char
        hi == 31 * w.hi + (lo \div Half)
    IN  Word(hi % Half, lo % Half)

RECURSIVE HashLoop(_, _)
HashLoop(w, codes) ==
    IF codes = <<>> THEN w ELSE HashLoop(HashStep(w, Head(codes)), Tail(codes))

\* The int32 a word stands for is negative when its top bit is set.
IsNegative(w) == w.hi >= Half \div 2

\* A JavaScript number that is an integer of magnitude at most 2^31: its
\* sign and its magnitude, an unsigned word.
Number32(neg, mag) == [neg |-> neg, mag |-> mag]

\* The number an int32 word stands for (magnitude 2^31 for the word of -2^31).
Int32Number(w) ==
    IF ~IsNegative(w) THEN Number32(FALSE, w)
    ELSE IF w.lo = 0 THEN Number32(TRUE, Word((Half - w.hi) % Half, 0))
    ELSE Number32(TRUE, Word(Half - 1 - w.hi, Half - w.lo))

\* A hash that is returned with its sign.
MathAbsSkipped(x) == x

\* Math.abs(hash), on numbers: 2^31 for -2^31.
MathAbs(x) == [x EXCEPT !.neg = FALSE]

\* simpleStringHash(str); codes is empty for the empty string and for a
\* value that is not a string and is falsy (!str).
simpleStringHash(codes) ==
    IF codes = <<>> THEN Number32(FALSE, Word(0, 0))
    ELSE MathAbs(Int32Number(HashLoop(Word(0, 0), codes)))

\* The value of an unsigned word below 2^31.
WordValue(w) == w.hi * Half + w.lo

\* The remainder of an unsigned word.
WordMod(w, m) == ((w.hi % m) * (Half % m) + (w.lo % m)) % m

\* x % m in JavaScript: the remainder has the sign of the dividend.
JsMod(x, m) == IF x.neg THEN 0 - WordMod(x.mag, m) ELSE WordMod(x.mag, m)

\* Partition keys: [t, codes, n] with t in "str" "num" "null" "undef".
StrKey(codes) == [t |-> "str", codes |-> codes, n |-> 0]
NumKey(n) == [t |-> "num", codes |-> <<>>, n |-> n]
NullKey == [t |-> "null", codes |-> <<>>, n |-> 0]
UndefKey == [t |-> "undef", codes |-> <<>>, n |-> 0]

\* The decimal digits of a non-negative integer, as code units.
RECURSIVE Digits(_)
Digits(n) ==
    IF n < 10 THEN <<48 + n>> ELSE Append(Digits(n \div 10), 48 + (n % 10))

\* String(partitionKey)
KeyString(key) == IF key.t = "num" THEN Digits(key.n) ELSE key.codes

\* A getPartition that draws the index for every key.
getPartitionRandom(key, total) == 0 .. total - 1

\* Partitioner.getPartition: the set of indices it may return (one index for a
\* key, any index for a null or undefined key, which is drawn with Math.random).
getPartition(key, total) ==
    IF key.t \in {"null", "undef"} THEN 0 .. total - 1
    ELSE {JsMod(simpleStringHash(KeyString(key)), total)}

\* Partitioner.getPartitionStreamName: "" stands for the thrown range error.
getPartitionStreamName(baseTopic, partitionIndex, total) ==
    IF partitionIndex < 0 \/ partitionIndex >= total THEN ""
    ELSE baseTopic \o ":" \o ToString(partitionIndex)

\* ------------------------------------------------------------------- state

VARIABLES
    \* RedisConnection.js: the shared client, "null" or "ready"
    redisClient,
    \* Partitioner.totalPartitions (the same number in ConsumerManager)
    totalPartitions,
    \* the store: stream name -> sequence of entries [id, fields]
    streams,
    \* the store: stream name -> the consumer group Group of that stream,
    \* [last, pel]: the last delivered id and, per pending id, [owner, idle]
    groups,
    \* the id the store gives the next appended entry
    nextId,
    \* the most recent publish call: its arguments, the field list it built,
    \* the stream it addressed and what it returned (0 for null); the client
    \* getClient saw, the XADD commands issued and the store's reply to the
    \* last one, whether the promise resolved or rejected, and whether the
    \* call repeats the arguments of the call before it, which failed for
    \* want of a connection
    lastPub,
    \* the most recent run of _processMessages on a stored entry: the entry's
    \* id and the 'message' events emitted
    lastMsg,
    \* the instanceCount of a fleet and, per instanceId, the indices computed
    aCount, aOwned,
    \* the body of the partitioned Consumer's ack closure, which the source
    \* elides ("logica de ack sin cambios"): "elided" is the empty body as
    \* written, "unchanged" the body of the first variant
    ackLogic,
    \* the handler the application registers: "pending" settles some time
    \* after it was invoked, "throws" throws before it first suspends
    handlerKind,
    \* per worker process: QTask.isConnected
    isConnected,
    \* per worker process: the partitioning it registered with
    fleet,
    \* per worker process and partition index: the Consumer in
    \* ConsumerManager.consumers and the activities it has started
    consumers,
    \* per entry id: what has happened to the entry so far (counters)
    hist,
    \* reclaim ticks that have claimed entries
    ticks,
    \* a partition key, the totalPartitions of the Partitioner instances that
    \* are asked about it, the hash computed for it (a sequence of at most one
    \* number) and, per instance, the indices getPartition has returned
    pKey, pTotal, pHash, pIndex,
    \* per worker process: the client stored in RedisConnection.js, "null" or
    \* "ready"
    clients,
    \* the worker processes whose QTask holds a ConsumerManager
    managers,
    \* the most recent call of the QTask / ConsumerManager interface in the
    \* lifecycle specification and what it reported
    lastCall,
    \* one Consumer object driven through start() and stop(): its fields, its
    \* _runLoop activations, its reclaim call and what it last reported
    con,
    \* whether the store answers commands (an outage makes it FALSE)
    storeReachable,
    \* whether the store knows the XAUTOCLAIM command (a store older than
    \* version 6.2 answers it with "unknown command")
    xautoclaim,
    \* the ConsumerManager.register call and the stopAll() / QTask.stop() call
    \* that are in progress in process 0, each at its await
    calls,
    \* the clients that connect() of RedisConnection.js has created in one
    \* process, and which of them redisClient refers to
    pool

storeVars == <<redisClient, totalPartitions, streams, groups, nextId>>
pubVars == <<lastPub, lastMsg>>
assignVars == <<aCount, aOwned>>
runVars == <<ackLogic, handlerKind, isConnected, fleet, consumers, hist, ticks>>
partVars == <<pKey, pTotal, pHash, pIndex>>
lifeVars == <<clients, managers, lastCall>>
conVars == <<con, storeReachable, xautoclaim>>
raceVars == <<calls, pool>>
vars == <<storeVars, pubVars, assignVars, runVars, partVars, lifeVars, conVars,
          raceVars>>

EmptyMap == [x \in {} |-> 0]
NoPub == [seq |-> 0, topic |-> "", key |-> NullKey, payload |-> Scalar(Null),
          fields |-> <<>>, target |-> "", result |-> 0,
          client |-> "null", xadds |-> 0, reply |-> "none",
          outcome |-> "resolved", retry |-> FALSE]
NoMsg == [of |-> 0, emitted |-> <<>>]

\* The Partitioner instances of the partitioner specification.
Instances == 1 .. 2

\* No key has been hashed or mapped.
NoPartitioner ==
    /\ pKey = NullKey
    /\ pTotal = 1
    /\ pHash = <<>>
    /\ pIndex = [inst \in Instances |-> <<>>]

\* No call has been made. A call's report:
\*   outcome  "resolved" or "rejected", with the error that rejected it
\*   value    what a publish resolved to (0 for null)
\*   cmds     the stream commands (XADD, XGROUP CREATE) the call issued
\*   handler  the handler passed to a register
\*   skipped, ensured, failed, started, transport  the partition loop of a
\*            register (see RegisterLoop)
\*   prev     the call before it
NoCall ==
    [seq |-> 0, op |-> "none", pid |-> 0, outcome |-> "resolved", error |-> "",
     value |-> 0, cmds |-> 0, handler |-> "", skipped |-> {}, ensured |-> {},
     failed |-> {}, started |-> {}, transport |-> FALSE, prev |-> "none"]

\* What a step of the consumer specification reported:
\*   task     "start", "stop", "loop" (a _runLoop activation resumed), "tick"
\*            (the interval callback fired or its call resumed), "handler"
\*            (a handler invocation settled), "outage"
\*   noop     the call returned at its first test
\*   error    the error the step caught: "[RedisConnection]", "NOGROUP",
\*            "other", "unknown command", "escaped" (it was not caught in
\*            _runLoop), "handler" (the handler threw), or "" for none
\*   context  the context of the 'error' event the step emitted, "" for none
\*   issued   the store command the step issued, "" for none
\*   batch    the ids of the entries the step passed to _processMessages
\*   handed   the ids the step handed to the handler
\*   acked    the ids whose XACK the store carried out in the step
\*   answer   the store's answer to the XREADGROUP whose reply resumed the
\*            _runLoop activation in the step, "" when none did
NoReport ==
    [task |-> "none", noop |-> FALSE, error |-> "", context |-> "",
     issued |-> "", batch |-> <<>>, handed |-> <<>>, acked |-> <<>>,
     answer |-> ""]

\* A Consumer as its constructor leaves it, before start():
\*   isRunning      this.isRunning
\*   claimInterval  this.claimInterval refers to a timer that has not been
\*                  cleared
\*   loops          the _runLoop activations that have not returned, a bag
\*                  of the places where they are suspended: "read"
\*                  (XREADGROUP), "create" (_tryCreateGroup) or "sleep" (a
\*                  retry sleep)
\*   tick           the _claimAndReprocess call of the interval callback:
\*                  "idle", "xautoclaim" or "create"
\*   inflight       the handler invocations in progress, a bag of entry ids
\*   stopped        stop() has taken effect and start() has not since
\*   everStopped    stop() has taken effect at some time
\*   outage         "none": the store has always answered; "down": it has
\*                  stopped answering and no XREADGROUP of the consumer has
\*                  been answered since; "over": one has
\*   tickFailed     a reclaim call has failed
\*   last           what the most recent step reported
IdleConsumer ==
    [isRunning |-> FALSE, claimInterval |-> FALSE, loops |-> EmptyBag,
     tick |-> "idle", inflight |-> EmptyBag,
     stopped |-> FALSE, everStopped |-> FALSE, outage |-> "none",
     tickFailed |-> FALSE, last |-> NoReport]

\* No Consumer object is driven on its own, the store is reachable and
\* knows XAUTOCLAIM.
NoConsumer ==
    /\ con = IdleConsumer
    /\ storeReachable = TRUE
    /\ xautoclaim = TRUE

\* A call in progress:
\*   register  the ConsumerManager.register call: at "none" (not called),
\*             "ensure" (awaiting #ensureGroupOnPartition for the partition
\*             index) or "done"; todo holds the assigned indices the loop
\*             has not come to
\*   stop      the stopAll() or QTask.stop() call: kind "none", "stopAll" or
\*             "stop"; at "none", "wait" (the sleep of stopAll), "quit"
\*             (disconnect awaiting client.quit()) or "done"
\*   overlap   the stop call began while the register call was awaiting
IdleCalls ==
    [register |-> [at |-> "none", index |-> 0, todo |-> {}],
     stop |-> [kind |-> "none", at |-> "none"],
     overlap |-> FALSE]

\* The connection module of a process before connect():
\*   created     the number of clients created by new Redis(...), which are
\*               named 1 .. created
\*   connecting  the clients whose client.connect() is awaited
\*   live        the clients that are connected and have not ended
\*   shared      the client redisClient refers to, 0 for null
\*   quitting    the client whose quit() disconnect() awaits, 0 for none
NoClients ==
    [created |-> 0, connecting |-> {}, live |-> {}, shared |-> 0,
     quitting |-> 0]

\* No call is in progress and connect() has created no client.
NoCalls ==
    /\ calls = IdleCalls
    /\ pool = NoClients

\* No worker process has been created.
NoWorkers ==
    /\ ackLogic = "unchanged"
    /\ handlerKind = "pending"
    /\ isConnected = EmptyMap
    /\ fleet = EmptyMap
    /\ consumers = EmptyMap
    /\ hist = EmptyMap
    /\ ticks = 0
    /\ clients = EmptyMap
    /\ managers = {}
    /\ lastCall = NoCall
    /\ NoConsumer
    /\ NoCalls

\* ------------------------------------------------------------------- store

\* getClient(): throws unless a client is stored and has not ended.
GetClientOk(client) == client = "ready"

\* What the store answers to a command it receives: "id" / "ok" when it
\* carries the command out, "error" when it refuses it (a key of the wrong
\* type, no memory, a request that ran out of retries).
StoreReplies == {"ok", "error"}

Entry(id, fields) == [id |-> id, fields |-> fields]

\* XADD stream * field value ...: the stream is created when absent, the
\* arguments are kept as text.
Xadd(st, stream, fields) ==
    LET e == Entry(nextId, [i \in DOMAIN fields |-> ToRedisString(fields[i])])
    IN  IF stream \in DOMAIN st
        THEN [st EXCEPT ![stream] = Append(@, e)]
        ELSE (stream :> <<e>>) @@ st

\* --------------------------------------------------------------- Publisher

\* A publish that forgets the empty-object case.
PublishFieldsNoPlaceholder(messageData) ==
    IF messageData.t = "obj"
    THEN LET fieldsToSave == EntriesFlat(messageData.props)
         IN  IF \E i \in DOMAIN fieldsToSave : IsNullish(fieldsToSave[i])
             THEN <<Str("message"), Str(JsonStringify(messageData))>>
             ELSE fieldsToSave
    ELSE <<Str("message"),
           IF messageData.t = "str" THEN Str(messageData.s)
           ELSE Str(JsonStringify(messageData))>>

\* The field list publish builds from messageData.
PublishFields(messageData) ==
    IF messageData.t = "obj"
    THEN LET fieldsToSave == EntriesFlat(messageData.props)
         IN  IF \E i \in DOMAIN fieldsToSave : IsNullish(fieldsToSave[i])
             THEN <<Str("message"), Str(JsonStringify(messageData))>>
             ELSE IF Len(fieldsToSave) = 0
             THEN <<Str("_placeholder"), Str("empty_object")>>
             ELSE fieldsToSave
    ELSE <<Str("message"),
           IF messageData.t = "str" THEN Str(messageData.s)
           ELSE Str(JsonStringify(messageData))>>

\* An argument check that leaves out the partition key.
PublishArgsMissingNoKey(baseTopic, partitionKey, messageData) ==
    baseTopic = "" \/ IsNullish(messageData)

\* !baseTopic || partitionKey == null || messageData == null
PublishArgsMissing(baseTopic, partitionKey, messageData) ==
    \/ baseTopic = ""
    \/ partitionKey.t \in {"null", "undef"}
    \/ IsNullish(messageData)

\* A publish that addresses the topic itself, as the unpartitioned Publisher does.
PublishTargetUnpartitioned(baseTopic, partitionKey) == baseTopic

\* The stream publish addresses.
PublishTarget(baseTopic, partitionKey) ==
    LET partitionIndex == CHOOSE i \in getPartition(partitionKey, totalPartitions) : TRUE
    IN  getPartitionStreamName(baseTopic, partitionIndex, totalPartitions)

\* The catch block of publish: an error of getClient is logged and null
\* returned; for any other error the log line is built from `topic`, a name
\* that is declared nowhere, and evaluating it throws a ReferenceError out
\* of the catch block: the promise publish returned rejects.
PublishCatch(error) ==
    IF error = "[RedisConnection]" THEN "resolved" ELSE "rejected"

\* Publisher.publish(baseTopic, partitionKey, messageData) with the client
\* getClient finds and the store's reply to XADD: the call as a record
\* [fields, target, result, xadds, reply, outcome]; result is 0 for null.
\* The store is changed by the caller when result is not 0.
PublishCall(client, baseTopic, partitionKey, messageData, reply) ==
    IF PublishArgsMissing(baseTopic, partitionKey, messageData)
    THEN [fields |-> <<>>, target |-> "", result |-> 0,
          xadds |-> 0, reply |-> "none", outcome |-> "resolved"]
    ELSE LET targetStream == PublishTarget(baseTopic, partitionKey)
             fieldsToSave == PublishFields(messageData)
         IN  IF ~GetClientOk(client)
             THEN [fields |-> fieldsToSave, target |-> targetStream, result |-> 0,
                   xadds |-> 0, reply |-> "none",
                   outcome |-> PublishCatch("[RedisConnection]")]
             ELSE IF reply = "ok"
             THEN [fields |-> fieldsToSave, target |-> targetStream, result |-> nextId,
                   xadds |-> 1, reply |-> reply, outcome |-> "resolved"]
             ELSE [fields |-> fieldsToSave, target |-> targetStream, result |-> 0,
                   xadds |-> 1, reply |-> reply, outcome |-> PublishCatch(reply)]

PublishStore(call) ==
    IF call.result = 0 THEN UNCHANGED <<streams, nextId>>
    ELSE /\ streams' = Xadd(streams, call.target, call.fields)
         /\ nextId' = nextId + 1

\* ---------------------------------------------- Consumer: _processMessages

\* A reconstruction that reads the pairs one position off.
RECURSIVE ReconstructShifted(_, _)
ReconstructShifted(props, fields) ==
    IF Len(fields) < 2 THEN props
    ELSE ReconstructShifted(ObjSet(props, fields[2], Str(fields[1])),
                            SubSeq(fields, 3, Len(fields)))

\* reconstructedData[fields[i]] = fields[i + 1] for i = 0, 2, 4, ...
RECURSIVE Reconstruct(_, _)
Reconstruct(props, fields) ==
    IF Len(fields) < 2 THEN props
    ELSE Reconstruct(ObjSet(props, fields[1], Str(fields[2])),
                     SubSeq(fields, 3, Len(fields)))

\* A test that lets every non-empty field list through.
FieldsNonEmpty(fields) == Len(fields) > 0

\* fields && fields.length > 0 && fields.length % 2 === 0
FieldsWellFormed(fields) == Len(fields) > 0 /\ Len(fields) % 2 = 0

\* A loop that visits the batch from its end.
ForEachReversed(messages) ==
    [i \in DOMAIN messages |-> messages[Len(messages) + 1 - i]]

\* The order in which messages.forEach visits a batch.
ForEachOrder(messages) == messages

\* The 'message' events _processMessages emits for a batch, in order: one
\* [id, data] per entry whose fields are well formed.
EmitAll(messages) ==
    LET emitting == SelectSeq(messages, LAMBDA m : FieldsWellFormed(m.fields))
    IN  [i \in DOMAIN emitting |->
            [id |-> emitting[i].id,
             data |-> Obj(Reconstruct(<<>>, emitting[i].fields))]]

ProcessMessages(messages) == EmitAll(ForEachOrder(messages))

\* ------------------------------------------------ publisher specification

\* Property insertions that build the object payloads: [k, v] in the order
\* the program inserts them.
PubInserts ==
    {<<>>}
    \cup {<<Prop("a", v)>> : v \in {Str("x"), Str(""), Num(1), Bool(TRUE), Null, Undef}}
    \cup {<<Prop(k, Str("x"))>> : k \in {"1", "__proto__"}}
    \cup {<<Prop("b", Str("x")), Prop(k, Str("y"))>> : k \in {"a", "1", "__proto__"}}
    \cup {<<Prop("b", Str("x")), Prop("a", Null)>>}

RECURSIVE MakeObj(_, _)
MakeObj(props, inserts) ==
    IF inserts = <<>> THEN Obj(props)
    ELSE MakeObj(ObjDefine(props, Head(inserts).k, Head(inserts).v), Tail(inserts))

PubObjects == {MakeObj(<<>>, inserts) : inserts \in PubInserts}

PubPayloads ==
    PubObjects
    \cup {Scalar(Str("hello")), Scalar(Str("")), Scalar(Num(5)), Scalar(Bool(TRUE)),
          Arr(<<Num(1), Undef>>), Arr(<<>>)}

KeyAbc == StrKey(<<97, 98, 99>>)
KeyA == StrKey(<<97>>)
KeyB == StrKey(<<98>>)

\* The publish calls of the publisher specification: every payload, a second
\* and a numeric key, and the calls with an argument missing.
PubInputs ==
    {<<BaseTopic, KeyAbc, p>> : p \in PubPayloads}
    \cup {<<BaseTopic, KeyA, Scalar(Str("hello"))>>,
          <<BaseTopic, KeyA, Obj(<<Prop("a", Str("x"))>>)>>,
          <<"", KeyAbc, Scalar(Str("hello"))>>,
          <<BaseTopic, NullKey, Scalar(Str("hello"))>>,
          <<BaseTopic, UndefKey, Scalar(Str("hello"))>>,
          <<BaseTopic, KeyAbc, Scalar(Null)>>,
          <<BaseTopic, KeyAbc, Scalar(Undef)>>,
          <<BaseTopic, NumKey(12), Scalar(Str("hello"))>>}

PubInit ==
    /\ redisClient \in {"null", "ready"}
    /\ totalPartitions \in 1 .. MaxPubPartitions
    /\ streams = EmptyMap
    /\ groups = EmptyMap
    /\ nextId = 1
    /\ lastPub = NoPub
    /\ lastMsg = NoMsg
    /\ aCount = 0
    /\ aOwned = EmptyMap
    /\ NoWorkers
    /\ NoPartitioner

\* connect(): a client is created and stored once it has connected.
RedisConnect ==
    /\ redisClient = "null"
    /\ redisClient' = "ready"
    /\ UNCHANGED <<totalPartitions, streams, groups, nextId, pubVars, assignVars, runVars, partVars, lifeVars, conVars, raceVars>>

\* The client's 'end' event, or disconnect(): redisClient = null.
RedisEnd ==
    /\ redisClient = "ready"
    /\ redisClient' = "null"
    /\ UNCHANGED <<totalPartitions, streams, groups, nextId, pubVars, assignVars, runVars, partVars, lifeVars, conVars, raceVars>>

\* publisher.publish(baseTopic, partitionKey, messageData), with the store's
\* reply to the XADD it may issue.
Publish(baseTopic, partitionKey, messageData, reply) ==
    /\ lastPub.seq < MaxPublishes
    /\ LET call == PublishCall(redisClient, baseTopic, partitionKey, messageData, reply)
       IN  /\ PublishStore(call)
           /\ lastPub' = [seq |-> lastPub.seq + 1, topic |-> baseTopic,
                          key |-> partitionKey, payload |-> messageData,
                          fields |-> call.fields, target |-> call.target,
                          result |-> call.result,
                          client |-> redisClient, xadds |-> call.xadds,
                          reply |-> call.reply, outcome |-> call.outcome,
                          retry |-> /\ lastPub.seq > 0
                                    /\ lastPub.client # "ready"
                                    /\ lastPub.fields # <<>>
                                    /\ lastPub.topic = baseTopic
                                    /\ lastPub.key = partitionKey
                                    /\ lastPub.payload = messageData]
    /\ UNCHANGED <<redisClient, totalPartitions, groups, lastMsg, assignVars, runVars, partVars, lifeVars, conVars, raceVars>>

\* A consumer's _processMessages on one stored entry.
ProcessStored ==
    /\ \E s \in DOMAIN streams : \E i \in DOMAIN streams[s] :
          lastMsg' = [of |-> streams[s][i].id,
                      emitted |-> ProcessMessages(<<streams[s][i]>>)]
    /\ UNCHANGED <<storeVars, lastPub, assignVars, runVars, partVars, lifeVars, conVars, raceVars>>

PubNext ==
    \/ RedisConnect
    \/ RedisEnd
    \/ \E in \in PubInputs : \E reply \in StoreReplies :
          Publish(in[1], in[2], in[3], reply)
    \/ ProcessStored

SpecPub == PubInit /\ [][PubNext]_vars

\* --------------------------------------------- ConsumerManager: assignment

\* The loop of #getAssignedPartitionIndices from index i on, one index short.
RECURSIVE AssignLoopOneShort(_, _, _, _)
AssignLoopOneShort(i, instanceId, instanceCount, total) ==
    IF i >= total - 1 THEN <<>>
    ELSE (IF i % instanceCount = instanceId THEN <<i>> ELSE <<>>)
         \o AssignLoopOneShort(i + 1, instanceId, instanceCount, total)

\* for (let i = ...; i < this.totalPartitions; i++)
\*     if (i % instanceCount === instanceId) assignedIndices.push(i)
RECURSIVE AssignLoop(_, _, _, _)
AssignLoop(i, instanceId, instanceCount, total) ==
    IF i >= total THEN <<>>
    ELSE (IF i % instanceCount = instanceId THEN <<i>> ELSE <<>>)
         \o AssignLoop(i + 1, instanceId, instanceCount, total)

\* ConsumerManager.#getAssignedPartitionIndices
getAssignedPartitionIndices(instanceId, instanceCount, total) ==
    IF instanceCount <= 0 THEN <<>>
    ELSE IF instanceId < 0 THEN <<>>
    ELSE AssignLoop(0, instanceId, instanceCount, total)

\* register's check of the partitioning: it throws when this holds.
PartitioningInvalid(instanceId, instanceCount) ==
    instanceCount <= 0 \/ instanceId < 0 \/ instanceId >= instanceCount

\* The first steps of register: [ok, indices], ok false for the thrown error.
AssignedIndices(instanceId, instanceCount, total) ==
    IF PartitioningInvalid(instanceId, instanceCount)
    THEN [ok |-> FALSE, indices |-> <<>>]
    ELSE [ok |-> TRUE,
          indices |-> getAssignedPartitionIndices(instanceId, instanceCount, total)]

\* ----------------------------------------------- assignment specification

AssignInit ==
    /\ redisClient = "null"
    /\ totalPartitions \in 1 .. MaxAssignPartitions
    /\ streams = EmptyMap
    /\ groups = EmptyMap
    /\ nextId = 1
    /\ lastPub = NoPub
    /\ lastMsg = NoMsg
    /\ aCount \in 1 .. MaxAssignInstances
    /\ aOwned = EmptyMap
    /\ NoWorkers
    /\ NoPartitioner

\* One member of the fleet computes its indices; instanceId = instanceCount
\* is the input register rejects.
Assign(instanceId) ==
    /\ instanceId \notin DOMAIN aOwned
    /\ aOwned' = (instanceId :> AssignedIndices(instanceId, aCount, totalPartitions))
                 @@ aOwned
    /\ UNCHANGED <<storeVars, pubVars, aCount, runVars, partVars, lifeVars, conVars, raceVars>>

AssignNext == \E instanceId \in 0 .. aCount : Assign(instanceId)

SpecAssign == AssignInit /\ [][AssignNext]_vars

\* ---------------------------------------------- partitioner specification

\* The strings of at most n code units over the letters a and z.
KeyStrings(n) == UNION {[1 .. len -> {97, 122}] : len \in 0 .. n}

KeyHello == StrKey(<<104, 101, 108, 108, 111>>)
\* "zzzzzz": the recurrence passes 2^31 and ends below zero.
KeyNegative == StrKey(<<122, 122, 122, 122, 122, 122>>)
\* "GydZG_": the recurrence ends at -2^31.
KeyMinInt == StrKey(<<71, 121, 100, 90, 71, 95>>)

\* The keys of the partitioner specification.
PartKeys ==
    {StrKey(codes) : codes \in KeyStrings(MaxKeyLength)}
    \cup {KeyAbc, KeyHello, KeyNegative, KeyMinInt, NumKey(12), NullKey, UndefKey}

PartInit ==
    /\ redisClient = "null"
    /\ totalPartitions = 1
    /\ streams = EmptyMap
    /\ groups = EmptyMap
    /\ nextId = 1
    /\ lastPub = NoPub
    /\ lastMsg = NoMsg
    /\ aCount = 0
    /\ aOwned = EmptyMap
    /\ NoWorkers
    /\ pKey \in PartKeys
    /\ pTotal \in 1 .. MaxHashPartitions
    /\ pHash = <<>>
    /\ pIndex = [inst \in Instances |-> <<>>]

\* simpleStringHash(pKey), for a key that is a string or is absent.
HashKey ==
    /\ pHash = <<>>
    /\ pKey.t # "num"
    /\ pHash' = <<simpleStringHash(pKey.codes)>>
    /\ UNCHANGED <<storeVars, pubVars, assignVars, runVars, pKey, pTotal, pIndex, lifeVars, conVars, raceVars>>

\* new Partitioner(pTotal) number inst is asked getPartition(pKey).
AskPartition(inst) ==
    /\ Len(pIndex[inst]) < MaxAsks
    /\ \E partitionIndex \in getPartition(pKey, pTotal) :
          pIndex' = [pIndex EXCEPT ![inst] = Append(@, partitionIndex)]
    /\ UNCHANGED <<storeVars, pubVars, assignVars, runVars, pKey, pTotal, pHash, lifeVars, conVars, raceVars>>

PartNext ==
    \/ HashKey
    \/ \E inst \in Instances : AskPartition(inst)

SpecPart == PartInit /\ [][PartNext]_vars

\* ------------------------------------------------- store: consumer groups

\* XGROUP CREATE stream group $ MKSTREAM: a group that starts after the last
\* entry of the stream.
XgroupCreateAtEnd(gs, names) ==
    [s \in DOMAIN gs \cup names |->
        IF s \in DOMAIN gs THEN gs[s]
        ELSE [last |-> IF s \in DOMAIN streams /\ streams[s] # <<>>
                       THEN streams[s][Len(streams[s])].id ELSE 0,
              pel |-> EmptyMap]]

\* XGROUP CREATE stream group 0 MKSTREAM, for each stream of a set: the
\* group starts before the first entry; when the group exists the store
\* answers BUSYGROUP and nothing changes.
XgroupCreate(gs, names) ==
    [s \in DOMAIN gs \cup names |->
        IF s \in DOMAIN gs THEN gs[s] ELSE [last |-> 0, pel |-> EmptyMap]]

\* MKSTREAM: the stream is created, empty, when absent.
MkStream(st, names) ==
    [s \in DOMAIN st \cup names |-> IF s \in DOMAIN st THEN st[s] ELSE <<>>]

\* XREADGROUP GROUP group consumer STREAMS stream >: the entries after the
\* last one delivered to the group, in id order (the call has no COUNT).
NewEntries(stream) ==
    SelectSeq(streams[stream], LAMBDA e : e.id > groups[stream].last)

\* The group after the batch was delivered to the consumer: every entry is
\* pending under the consumer, with no idle time.
Xreadgroup(g, consumerId, batch) ==
    [last |-> batch[Len(batch)].id,
     pel |-> [id \in {batch[i].id : i \in DOMAIN batch} |->
                 [owner |-> consumerId, idle |-> 0]] @@ g.pel]

\* The count lowest ids of a set (all of them when there are fewer), in
\* increasing order.
LowestIds(ids, count) ==
    LET Rank(x) == Cardinality({y \in ids : y < x})
        n == IF Cardinality(ids) < count THEN Cardinality(ids) ELSE count
    IN  [i \in 1 .. n |-> CHOOSE x \in ids : Rank(x) = i - 1]

\* XAUTOCLAIM stream group consumer minIdle startId COUNT count with startId
\* "0-0": the ids claimed, the pending entries idle for at least minIdle in
\* id order from the start of the list, at most count of them.
XautoclaimIds(g, count) ==
    LowestIds({id \in DOMAIN g.pel : g.pel[id].idle >= MinIdle}, count)

\* The group after the claim: the claimed entries are pending under the
\* claiming consumer and their idle time starts again.
Xautoclaim(g, consumerId, ids) ==
    [g EXCEPT !.pel = [id \in DOMAIN @ |->
        IF \E i \in DOMAIN ids : ids[i] = id
        THEN [owner |-> consumerId, idle |-> 0] ELSE @[id]]]

\* The entries a claim returns: [id, fields] as in a group read.
ClaimedEntries(stream, ids) ==
    [i \in DOMAIN ids |->
        CHOOSE e \in {streams[stream][j] : j \in DOMAIN streams[stream]} : e.id = ids[i]]

\* XACK stream group id, for each id of a set
Xack(g, ids) == [g EXCEPT !.pel = [x \in DOMAIN @ \ ids |-> @[x]]]

\* --------------------------------------------------- history of an entry

\* Largest value of a history counter (larger counts are not told apart).
CountCap == 2

NoHist == [handed |-> 0, claimed |-> 0, returned |-> 0, threw |-> 0, xack |-> 0]

\* One more event of the kind field for each entry of the set ids.
Bump(h, ids, field) ==
    [id \in DOMAIN h |->
        IF id \in ids
        THEN [h[id] EXCEPT ![field] = IF @ < CountCap THEN @ + 1 ELSE @]
        ELSE h[id]]

\* ------------------------------------- ConsumerManager: message listener

Procs == 0 .. NumProcs - 1

\* `${consumerIdBase || `consumer-${group}`}-${process.pid}-${index}`
ConsumerId(pid, index) ==
    "consumer-" \o Group \o "-" \o ToString(pid) \o "-" \o ToString(index)

StreamOf(index) == getPartitionStreamName(BaseTopic, index, totalPartitions)

\* A listener that acknowledges whatever the handler did.
ListenerAcksAlways(outcome) == TRUE

\* try { await handler(...); await ack(); } catch (processingError) { log }:
\* whether ack is called after the handler's outcome.
ListenerAcks(outcome) == outcome = "returned"

\* The ack closures of the entries ids of a stream, called in process pid:
\* the store's groups and the history after them, [groups, hist].
AckClosure(gs, h, pid, stream, ids) ==
    IF ackLogic = "unchanged" /\ clients[pid] = "ready"
    THEN [groups |-> [gs EXCEPT ![stream] = Xack(@, ids)],
          hist |-> Bump(h, ids, "xack")]
    ELSE [groups |-> gs, hist |-> h]

\* The listeners of the entries ids from the point where the handlers'
\* promises settle, all with the same outcome.
ListenerResume(gs, h, pid, stream, ids, outcome) ==
    IF ListenerAcks(outcome)
    THEN AckClosure(gs, Bump(h, ids, outcome), pid, stream, ids)
    ELSE [groups |-> gs, hist |-> Bump(h, ids, outcome)]

\* ---------------------------------------------------------------- Consumer

\* A Consumer after start(): the read loop has issued its XREADGROUP and the
\* reclaim interval is armed.
\*   read     "blocked": XREADGROUP outstanding; "replied": its reply (batch)
\*            has arrived and the loop has not resumed
\*   claim    "idle"; "replied": the reply (claimed) of the XAUTOCLAIM of a
\*            tick has arrived and _claimAndReprocess has not resumed
\*   inflight the handler invocations in progress, a bag of entry ids
\*   readLog  the ids handed on from group reads, one sequence per batch
\*   registered  the Consumer is a value of ConsumerManager.consumers
\*   handler  the handler its 'message' listener calls
StartedConsumer ==
    [isRunning |-> TRUE, claimInterval |-> TRUE,
     read |-> "blocked", batch |-> <<>>,
     claim |-> "idle", claimed |-> <<>>,
     inflight |-> EmptyBag, readLog |-> <<>>,
     registered |-> TRUE, handler |-> "h1"]

\* Consumer.stop() that clears the flag and leaves the interval armed.
ConsumerStopFlagOnly(c) == [c EXCEPT !.isRunning = FALSE]

\* Consumer.stop() that clears the interval and leaves the flag.
ConsumerStopIntervalOnly(c) == [c EXCEPT !.claimInterval = FALSE]

\* Consumer.stop(): nothing when the consumer is not running.
ConsumerStop(c) ==
    IF ~c.isRunning THEN c
    ELSE [c EXCEPT !.claimInterval = FALSE, !.isRunning = FALSE]

IdSet(ids) == {ids[i] : i \in DOMAIN ids}

EventIds(emitted) == [i \in DOMAIN emitted |-> emitted[i].id]

\* The handler invocations in progress after the listener was invoked for
\* each event: emit calls the listener, which runs up to `await handler(...)`
\* and returns to emit, which goes on to the next event.
Invoked(inflight, ids) ==
    IF handlerKind = "pending"
    THEN inflight (+) SetToBag(IdSet(ids))
    ELSE inflight

\* A hand-on that counts an XACK for each event at once.
HandedOnAcked(h, ids, source) ==
    Bump(Bump(h, IdSet(ids), "handed"), IdSet(ids), "xack")

\* The history after the events of a batch were handed on.
HandedOn(h, ids, source) ==
    IF source = "claim"
    THEN Bump(Bump(h, IdSet(ids), "handed"), IdSet(ids), "claimed")
    ELSE Bump(h, IdSet(ids), "handed")

\* ------------------------------------------------------ runtime: actions

\* The payload and the keys the runtime specifications publish.
RunPayload == Obj(<<Prop("a", Str("x"))>>)
RunKeys == {KeyA, KeyB}

Init ==
    /\ redisClient = "null"
    /\ totalPartitions = TotalPartitions
    /\ streams = EmptyMap
    /\ groups = EmptyMap
    /\ nextId = 1
    /\ lastPub = NoPub
    /\ lastMsg = NoMsg
    /\ aCount = 0
    /\ aOwned = EmptyMap
    /\ ackLogic \in {"elided", "unchanged"}
    /\ handlerKind = "pending"
    /\ isConnected = [pid \in Procs |-> FALSE]
    /\ fleet = EmptyMap
    /\ consumers = EmptyMap
    /\ hist = EmptyMap
    /\ ticks = 0
    /\ NoPartitioner
    /\ clients = [pid \in Procs |-> "null"]
    /\ managers = {}
    /\ lastCall = NoCall
    /\ NoConsumer
    /\ NoCalls

\* QTask.connect() in a worker process that is not connected, when the store
\* is reachable: the client is stored, the flag set and a ConsumerManager
\* created.
WorkerConnect(pid) ==
    /\ ~isConnected[pid]
    /\ isConnected' = [isConnected EXCEPT ![pid] = TRUE]
    /\ clients' = [clients EXCEPT ![pid] = "ready"]
    /\ managers' = managers \cup {pid}
    /\ UNCHANGED <<storeVars, pubVars, assignVars, ackLogic, handlerKind, fleet,
                   consumers, hist, ticks, partVars, lastCall, conVars, raceVars>>

\* QTask.publish(topic, partitionKey, messageData) in the publishing process,
\* once it is connected, when the store carries the XADD out.
QPublish(partitionKey, messageData, maxEntries) ==
    /\ redisClient = "ready"
    /\ nextId <= maxEntries
    /\ LET call == PublishCall(redisClient, BaseTopic, partitionKey, messageData, "ok")
       IN  /\ PublishStore(call)
           /\ hist' = IF call.result = 0 THEN hist ELSE (call.result :> NoHist) @@ hist
    /\ UNCHANGED <<redisClient, totalPartitions, groups, pubVars, assignVars,
                   ackLogic, handlerKind, isConnected, fleet, consumers, ticks, partVars, lifeVars, conVars, raceVars>>

\* The partition indices that are keys of the ConsumerManager of process pid
\* (the key is stream:group:consumerId, which the index determines).
Registry(pid) ==
    {k[2] : k \in {c \in DOMAIN consumers : c[1] = pid /\ consumers[c].registered}}

\* A loop that does not look for the key in the registry.
TriedAll(indices, present) == indices

\* if (this.consumers.has(consumerKey)) continue: the indices that get past it.
Tried(indices, present) == indices \ present

\* A loop that is left at the first partition whose group creation fails.
CreatedUntilFailure(tried, faulty) ==
    {index \in tried : \A f \in tried \cap faulty : index < f}

\* try { await ensureGroup; new Consumer; on; start; set } catch { log }: the
\* indices whose iteration reaches the end of the try block.
Created(tried, faulty) == tried \ faulty

\* The partition loop of register in process pid, over the assigned indices,
\* when the store refuses XGROUP CREATE for the streams of faulty:
\*   skipped  the indices whose key is in the registry
\*   ensured  the indices for which XGROUP CREATE was issued (none when
\*            getClient throws)
\*   failed   the indices for which #ensureGroupOnPartition threw
\*   started  the indices whose Consumer was created, started and stored
RegisterLoop(pid, indices, faulty) ==
    LET present == Registry(pid)
        tried == Tried(indices, present)
        clientOk == GetClientOk(clients[pid])
    IN  [skipped |-> indices \cap present,
         ensured |-> IF clientOk THEN tried ELSE {},
         failed |-> IF clientOk THEN tried \cap faulty ELSE tried,
         started |-> IF clientOk THEN Created(tried, faulty) ELSE {},
         transport |-> ~clientOk /\ tried # {}]

\* What register leaves behind: the groups of the partitions whose XGROUP
\* CREATE the store carried out, and their Consumers, started and stored.
RegisterEffects(pid, instanceId, instanceCount, handler, loop) ==
    /\ fleet' = (pid :> [instanceId |-> instanceId,
                         instanceCount |-> instanceCount]) @@ fleet
    /\ streams' = MkStream(streams, {StreamOf(index) : index \in loop.started})
    /\ groups' = XgroupCreate(groups, {StreamOf(index) : index \in loop.started})
    /\ consumers' = [k \in {<<pid, index>> : index \in loop.started} |->
                        [StartedConsumer EXCEPT !.handler = handler]] @@ consumers

\* QTask.register -> ConsumerManager.register in a connected worker process
\* that has not registered, with a store that carries every command out:
\* for each assigned index the group is ensured, a Consumer is created, the
\* listener attached, the Consumer started and stored. The steps for
\* different indices touch different streams, so the loop is one step.
Register(pid, instanceId, instanceCount) ==
    /\ isConnected[pid]
    /\ pid \notin DOMAIN fleet
    /\ LET assigned == AssignedIndices(instanceId, instanceCount, totalPartitions)
           indices == {assigned.indices[i] : i \in DOMAIN assigned.indices}
       IN  /\ assigned.ok
           /\ RegisterEffects(pid, instanceId, instanceCount, "h1",
                              RegisterLoop(pid, indices, {}))
    /\ UNCHANGED <<redisClient, totalPartitions, nextId, pubVars, assignVars,
                   ackLogic, handlerKind, isConnected, hist, ticks, partVars, lifeVars, conVars, raceVars>>

\* The store serves the outstanding XREADGROUP of a consumer when the stream
\* has entries the group has not seen. (A BLOCK timeout answers null and the
\* loop issues the same call again: no change of state.)
StoreServe(k) ==
    /\ consumers[k].read = "blocked"
    /\ \E stream \in {StreamOf(k[2])} :
       \E batch \in {NewEntries(stream)} :
           /\ batch # <<>>
           /\ groups' = [groups EXCEPT
                            ![stream] = Xreadgroup(@, ConsumerId(k[1], k[2]), batch)]
           /\ consumers' = [consumers EXCEPT ![k].read = "replied", ![k].batch = batch]
    /\ UNCHANGED <<redisClient, totalPartitions, streams, nextId, pubVars,
                   assignVars, ackLogic, handlerKind, isConnected, fleet, hist, ticks, partVars, lifeVars, conVars, raceVars>>

\* What _processMessages leaves behind in consumer k, given the ids of the
\* events it emits: the listener is invoked for each event; a handler that
\* throws at once has its listener resumed before anything else runs.
Processed(k, ids, source) ==
    LET h == HandedOn(hist, ids, source)
        r == IF handlerKind = "throws"
             THEN ListenerResume(groups, h, k[1], StreamOf(k[2]), IdSet(ids), "threw")
             ELSE [groups |-> groups, hist |-> h]
    IN  [inflight |-> Invoked(consumers[k].inflight, ids),
         groups |-> r.groups, hist |-> r.hist]

\* _runLoop resumes with the reply: it leaves the loop when the consumer was
\* stopped, and otherwise processes the batch and issues the next XREADGROUP.
ReadReturn(k) ==
    /\ consumers[k].read = "replied"
    /\ IF ~consumers[k].isRunning
       THEN /\ consumers' = [consumers EXCEPT ![k].read = "done", ![k].batch = <<>>]
            /\ UNCHANGED <<groups, hist>>
       ELSE \E ids \in {EventIds(ProcessMessages(consumers[k].batch))} :
            \E p \in {Processed(k, ids, "read")} :
                /\ consumers' = [consumers EXCEPT
                                    ![k].read = "blocked", ![k].batch = <<>>,
                                    ![k].inflight = p.inflight,
                                    ![k].readLog = Append(@, ids)]
                /\ groups' = p.groups
                /\ hist' = p.hist
    /\ UNCHANGED <<redisClient, totalPartitions, streams, nextId, pubVars,
                   assignVars, ackLogic, handlerKind, isConnected, fleet, ticks, partVars, lifeVars, conVars, raceVars>>

\* Time passes: every pending entry has been idle for longer.
AdvanceTime ==
    /\ \E s \in DOMAIN groups : \E id \in DOMAIN groups[s].pel :
          groups[s].pel[id].idle < MinIdle
    /\ groups' = [s \in DOMAIN groups |->
                    [groups[s] EXCEPT !.pel = [id \in DOMAIN @ |->
                        [@[id] EXCEPT !.idle = IF @ < MinIdle THEN @ + 1 ELSE @]]]]
    /\ UNCHANGED <<redisClient, totalPartitions, streams, nextId, pubVars,
                   assignVars, runVars, partVars, lifeVars, conVars, raceVars>>

\* The setInterval callback of consumer k fires while no earlier tick of k
\* is waiting for its reply: _claimAndReprocess issues XAUTOCLAIM and the
\* store serves it. (A tick that claims nothing changes no state.)
ClaimTick(k) ==
    /\ consumers[k].claimInterval
    /\ consumers[k].isRunning
    /\ consumers[k].claim = "idle"
    /\ clients[k[1]] = "ready"
    /\ \E stream \in {StreamOf(k[2])} :
       \E ids \in {XautoclaimIds(groups[stream], ClaimCount)} :
           /\ ids # <<>>
           /\ groups' = [groups EXCEPT
                            ![stream] = Xautoclaim(@, ConsumerId(k[1], k[2]), ids)]
           /\ consumers' = [consumers EXCEPT
                               ![k].claim = "replied",
                               ![k].claimed = ClaimedEntries(stream, ids)]
    /\ UNCHANGED <<redisClient, totalPartitions, streams, nextId, pubVars,
                   assignVars, ackLogic, handlerKind, isConnected, fleet, hist, partVars, lifeVars, conVars, raceVars>>

\* _claimAndReprocess resumes with the reply and processes the claimed
\* entries (it does not look at isRunning again).
ClaimReturn(k) ==
    /\ consumers[k].claim = "replied"
    /\ \E ids \in {EventIds(ProcessMessages(consumers[k].claimed))} :
       \E p \in {Processed(k, ids, "claim")} :
           /\ consumers' = [consumers EXCEPT
                               ![k].claim = "idle", ![k].claimed = <<>>,
                               ![k].inflight = p.inflight]
           /\ groups' = p.groups
           /\ hist' = p.hist
    /\ UNCHANGED <<redisClient, totalPartitions, streams, nextId, pubVars,
                   assignVars, ackLogic, handlerKind, isConnected, fleet, ticks, partVars, lifeVars, conVars, raceVars>>

\* A handler invocation of consumer k for entry id settles and the listener
\* resumes.
HandlerSettles(k, id, outcome) ==
    /\ BagIn(id, consumers[k].inflight)
    /\ LET r == ListenerResume(groups, hist, k[1], StreamOf(k[2]), {id}, outcome)
       IN  /\ groups' = r.groups
           /\ hist' = r.hist
    /\ consumers' = [consumers EXCEPT ![k].inflight = @ (-) SetToBag({id})]
    /\ UNCHANGED <<redisClient, totalPartitions, streams, nextId, pubVars,
                   assignVars, ackLogic, handlerKind, isConnected, fleet, ticks, partVars, lifeVars, conVars, raceVars>>

HandlerReturn(k, id) == HandlerSettles(k, id, "returned")

HandlerThrow(k, id) == HandlerSettles(k, id, "threw")

\* A reclaim tick of the bounded specification.
CountedClaimTick(k) ==
    /\ ticks < MaxTicks
    /\ ClaimTick(k)
    /\ ticks' = ticks + 1

Next ==
    \/ RedisConnect
    \/ \E pid \in Procs : WorkerConnect(pid)
    \/ \E key \in RunKeys : QPublish(key, RunPayload, MaxEntries)
    \/ \E pid \in Procs : \E instanceCount \in 1 .. NumProcs :
          \E instanceId \in 0 .. instanceCount - 1 :
             Register(pid, instanceId, instanceCount)
    \/ \E k \in DOMAIN consumers : StoreServe(k)
    \/ \E k \in DOMAIN consumers : ReadReturn(k)
    \/ AdvanceTime
    \/ \E k \in DOMAIN consumers : CountedClaimTick(k)
    \/ \E k \in DOMAIN consumers : ClaimReturn(k)
    \/ \E k \in DOMAIN consumers : \E id \in DOMAIN hist : HandlerReturn(k, id)
    \/ \E k \in DOMAIN consumers : \E id \in DOMAIN hist : HandlerThrow(k, id)

Spec == Init /\ [][Next]_vars

\* ------------------------------------------------ reclaim specification

\* Entries published in one run of the reclaim specification: one more than
\* a reclaim tick claims.
ReclaimEntries == ClaimCount + 1

\* The consumers a process can hold.
ConsumerKeys == Procs \X (0 .. TotalPartitions - 1)

\* One worker whose handler throws for every entry, at once; the ack closure
\* is never called.
ReclaimInit ==
    /\ redisClient = "null"
    /\ totalPartitions = TotalPartitions
    /\ streams = EmptyMap
    /\ groups = EmptyMap
    /\ nextId = 1
    /\ lastPub = NoPub
    /\ lastMsg = NoMsg
    /\ aCount = 0
    /\ aOwned = EmptyMap
    /\ ackLogic = "unchanged"
    /\ handlerKind = "throws"
    /\ isConnected = [pid \in Procs |-> FALSE]
    /\ fleet = EmptyMap
    /\ consumers = EmptyMap
    /\ hist = EmptyMap
    /\ ticks = 0
    /\ NoPartitioner
    /\ clients = [pid \in Procs |-> "null"]
    /\ managers = {}
    /\ lastCall = NoCall
    /\ NoConsumer
    /\ NoCalls

ReclaimConnect == WorkerConnect(0)

\* The backlog is published before the worker registers; every entry has
\* the same key and so goes to the same stream.
ReclaimPublish == fleet = EmptyMap /\ QPublish(KeyB, RunPayload, ReclaimEntries)

\* The worker registers as the only member of its fleet.
ReclaimRegister == Register(0, 0, 1)

ReclaimServe(k) == k \in DOMAIN consumers /\ StoreServe(k)

ReclaimRead(k) == k \in DOMAIN consumers /\ ReadReturn(k)

\* A reclaim tick: setInterval fires as long as the consumer runs.
ReclaimTick(k) == k \in DOMAIN consumers /\ ClaimTick(k) /\ UNCHANGED ticks

ReclaimReturn(k) == k \in DOMAIN consumers /\ ClaimReturn(k)

ReclaimNext ==
    \/ RedisConnect
    \/ ReclaimConnect
    \/ ReclaimPublish
    \/ ReclaimRegister
    \/ AdvanceTime
    \/ \E k \in ConsumerKeys : ReclaimServe(k)
    \/ \E k \in ConsumerKeys : ReclaimRead(k)
    \/ \E k \in ConsumerKeys : ReclaimTick(k)
    \/ \E k \in ConsumerKeys : ReclaimReturn(k)

\* The store answers every call, the event loop resumes every awaiting
\* function, time passes and the interval timer of a running consumer
\* fires; the application's calls (connect, publish, register) are not
\* forced.
ReclaimFairness ==
    /\ WF_vars(AdvanceTime)
    /\ \A k \in ConsumerKeys :
          /\ WF_vars(ReclaimServe(k))
          /\ WF_vars(ReclaimRead(k))
          /\ WF_vars(ReclaimTick(k))
          /\ WF_vars(ReclaimReturn(k))

SpecReclaim == ReclaimInit /\ [][ReclaimNext]_vars /\ ReclaimFairness

\* ---------------------------------------------- lifecycle specification

\* The process whose QTask is driven through its lifecycle, and the handler
\* functions it registers.
LifeProcs == {0}
Handlers == {"h1", "h2"}

\* A check that looks only for the ConsumerManager.
NotConnectedNoFlag(pid) == pid \notin managers

\* !this.isConnected || !this.consumerManager (for publish: !this.publisher,
\* which is created together with the manager)
NotConnected(pid) == ~isConnected[pid] \/ pid \notin managers

\* The report of a call that is being made.
Report(op, pid, outcome, error) ==
    [NoCall EXCEPT !.seq = lastCall.seq + 1, !.op = op, !.pid = pid,
                   !.outcome = outcome, !.error = error, !.prev = lastCall.op]

LifeInit ==
    /\ redisClient = "null"
    /\ totalPartitions = TotalPartitions
    /\ streams = EmptyMap
    /\ groups = EmptyMap
    /\ nextId = 1
    /\ lastPub = NoPub
    /\ lastMsg = NoMsg
    /\ aCount = 0
    /\ aOwned = EmptyMap
    /\ ackLogic = "unchanged"
    /\ handlerKind = "pending"
    /\ isConnected = [pid \in Procs |-> FALSE]
    /\ fleet = EmptyMap
    /\ consumers = EmptyMap
    /\ hist = EmptyMap
    /\ ticks = 0
    /\ NoPartitioner
    /\ clients = [pid \in Procs |-> "null"]
    /\ managers = {}
    /\ lastCall = NoCall
    /\ NoConsumer
    /\ NoCalls

\* QTask.connect(): nothing when the flag is set; otherwise connectRedis
\* returns the stored client or connects a new one, the flag is set and a
\* Publisher and a ConsumerManager (with an empty registry) are created; when
\* the store cannot be reached the flag is cleared and the error rethrown.
QTaskConnect(pid, reachable) ==
    /\ lastCall.seq < MaxCalls
    /\ IF isConnected[pid]
       THEN /\ lastCall' = Report("connect", pid, "resolved", "")
            /\ UNCHANGED <<isConnected, clients, managers, consumers>>
       ELSE IF reachable \/ clients[pid] = "ready"
       THEN /\ lastCall' = Report("connect", pid, "resolved", "")
            /\ isConnected' = [isConnected EXCEPT ![pid] = TRUE]
            /\ clients' = [clients EXCEPT ![pid] = "ready"]
            /\ managers' = managers \cup {pid}
            /\ consumers' = [k \in DOMAIN consumers |->
                                IF k[1] = pid
                                THEN [consumers[k] EXCEPT !.registered = FALSE]
                                ELSE consumers[k]]
       ELSE /\ lastCall' = Report("connect", pid, "rejected", "ConnectionFailed")
            /\ isConnected' = [isConnected EXCEPT ![pid] = FALSE]
            /\ UNCHANGED <<clients, managers, consumers>>
    /\ UNCHANGED <<storeVars, pubVars, assignVars, ackLogic, handlerKind, fleet,
                   hist, ticks, partVars, conVars, raceVars>>

\* The client's 'end' event in a worker process: redisClient = null. QTask's
\* flag is not touched.
ClientEnd(pid) ==
    /\ clients[pid] = "ready"
    /\ clients' = [clients EXCEPT ![pid] = "null"]
    /\ UNCHANGED <<storeVars, pubVars, assignVars, runVars, partVars, managers, lastCall, conVars, raceVars>>

\* QTask.register({topic, group, handler, partitioning}) while the store
\* refuses XGROUP CREATE for the streams of faulty: the connection check,
\* then ConsumerManager.register (partitioning check, assignment, partition
\* loop), which resolves when the loop has gone over every index.
QTaskRegister(pid, instanceId, instanceCount, handler, faulty) ==
    /\ lastCall.seq < MaxCalls
    /\ LET assigned == AssignedIndices(instanceId, instanceCount, totalPartitions)
           indices == {assigned.indices[i] : i \in DOMAIN assigned.indices}
           loop == RegisterLoop(pid, indices, faulty)
       IN  IF NotConnected(pid)
           THEN /\ lastCall' = Report("register", pid, "rejected", "NotConnected")
                /\ UNCHANGED <<fleet, streams, groups, consumers>>
           ELSE IF ~assigned.ok
           THEN /\ lastCall' = Report("register", pid, "rejected", "InvalidPartitioning")
                /\ UNCHANGED <<fleet, streams, groups, consumers>>
           ELSE /\ lastCall' = [Report("register", pid, "resolved", "") EXCEPT
                                   !.cmds = Cardinality(loop.ensured),
                                   !.handler = handler,
                                   !.skipped = loop.skipped,
                                   !.ensured = loop.ensured,
                                   !.failed = loop.failed,
                                   !.started = loop.started,
                                   !.transport = loop.transport]
                /\ RegisterEffects(pid, instanceId, instanceCount, handler, loop)
    /\ UNCHANGED <<redisClient, totalPartitions, nextId, pubVars, assignVars,
                   ackLogic, handlerKind, isConnected, hist, ticks, partVars,
                   clients, managers, conVars, raceVars>>

\* QTask.publish(topic, partitionKey, messageData): the connection check,
\* then Publisher.publish with the process's client.
QTaskPublish(pid, partitionKey, messageData, reply) ==
    /\ lastCall.seq < MaxCalls
    /\ nextId <= MaxEntries
    /\ IF NotConnected(pid)
       THEN /\ lastCall' = Report("publish", pid, "rejected", "NotConnected")
            /\ UNCHANGED <<streams, nextId, hist>>
       ELSE LET call == PublishCall(clients[pid], BaseTopic, partitionKey,
                                    messageData, reply)
            IN  /\ lastCall' = [Report("publish", pid, call.outcome,
                                       IF call.outcome = "rejected"
                                       THEN "ReferenceError" ELSE "") EXCEPT
                                   !.value = call.result, !.cmds = call.xadds]
                /\ PublishStore(call)
                /\ hist' = IF call.result = 0 THEN hist
                           ELSE (call.result :> NoHist) @@ hist
    /\ UNCHANGED <<redisClient, totalPartitions, groups, pubVars, assignVars,
                   ackLogic, handlerKind, isConnected, fleet, consumers, ticks,
                   partVars, clients, managers, conVars, raceVars>>

\* The consumers of process pid after stopAll: every Consumer of the registry
\* is stopped and the registry cleared.
StoppedAll(pid) ==
    [k \in DOMAIN consumers |->
        IF k[1] = pid /\ consumers[k].registered
        THEN [ConsumerStop(consumers[k]) EXCEPT !.registered = FALSE]
        ELSE consumers[k]]

\* ConsumerManager.stopAll() (the wait that follows changes no state).
ManagerStopAll(pid) ==
    /\ lastCall.seq < MaxCalls
    /\ pid \in managers
    /\ lastCall' = Report("stopAll", pid, "resolved", "")
    /\ consumers' = StoppedAll(pid)
    /\ UNCHANGED <<storeVars, pubVars, assignVars, ackLogic, handlerKind,
                   isConnected, fleet, hist, ticks, partVars, clients, managers, conVars, raceVars>>

\* QTask.stop(): stopAll when there is a manager, disconnect(), flag cleared.
QTaskStop(pid) ==
    /\ lastCall.seq < MaxCalls
    /\ lastCall' = Report("stop", pid, "resolved", "")
    /\ consumers' = IF pid \in managers THEN StoppedAll(pid) ELSE consumers
    /\ clients' = [clients EXCEPT ![pid] = "null"]
    /\ isConnected' = [isConnected EXCEPT ![pid] = FALSE]
    /\ UNCHANGED <<storeVars, pubVars, assignVars, ackLogic, handlerKind,
                   fleet, hist, ticks, partVars, managers, conVars, raceVars>>

LifeNext ==
    \/ \E pid \in LifeProcs : \E reachable \in BOOLEAN : QTaskConnect(pid, reachable)
    \/ \E pid \in LifeProcs : ClientEnd(pid)
    \/ \E pid \in LifeProcs : \E instanceCount \in 1 .. NumProcs :
          \E instanceId \in 0 .. instanceCount : \E handler \in Handlers :
             \E faulty \in SUBSET (0 .. TotalPartitions - 1) :
                QTaskRegister(pid, instanceId, instanceCount, handler, faulty)
    \/ \E pid \in LifeProcs : \E key \in RunKeys : \E reply \in StoreReplies :
          QTaskPublish(pid, key, RunPayload, reply)
    \/ \E pid \in LifeProcs : ManagerStopAll(pid)
    \/ \E pid \in LifeProcs : QTaskStop(pid)

SpecLife == LifeInit /\ [][LifeNext]_vars

\* ------------------------------------------------ consumer specification

\* _runLoop activations of the Consumer that have not returned.
MaxLoops == 2
\* Entries the store holds in the consumer's stream in one run of the
\* consumer specification, and in one run of the batch specification.
MaxConEntries == 1
MaxBatchEntries == 2
\* Interval callbacks that fire in one run.
MaxConTicks == 2

\* The Consumer of partition 0 in process 0: its stream and its id.
ConStream == StreamOf(0)
ConId == ConsumerId(0, 0)

\* The field lists with which the store returns an entry: pairs, an odd
\* number of items, none (a nil field list).
ConFields == <<"a", "x">>
ConFieldLists == {ConFields, <<"a", "x", "b">>, <<>>}

\* What the store answers to a command of the consumer: "other" when the
\* command does not get through (the error is none of those the code looks
\* for), "NOGROUP" when the key or the group is missing, "ok" otherwise.
StoreAnswer ==
    IF ~storeReachable \/ ~GetClientOk(clients[0]) THEN "other"
    ELSE IF ConStream \notin DOMAIN groups THEN "NOGROUP"
    ELSE "ok"

\* What the store answers to XAUTOCLAIM: a store that does not know the
\* command answers "unknown command" whatever the key holds.
XautoclaimAnswer ==
    IF StoreAnswer # "other" /\ ~xautoclaim THEN "unknown command"
    ELSE StoreAnswer

\* The context of the 'error' event that the catch block of _runLoop emits
\* for an error (the bodies the partitioned variant elides are those of the
\* first variant): a getClient failure is logged and no event is emitted.
ReadLoopContext(kind) ==
    CASE kind = "[RedisConnection]" -> ""
      [] kind = "NOGROUP" -> "readloop_nogroup"
      [] OTHER -> "readloop_xreadgroup"

\* Where a _runLoop activation is suspended next ("done": it has returned)
\* and what the step reports.
LoopStep(at, error, context, issued) ==
    [at |-> at,
     report |-> [NoReport EXCEPT !.task = "loop", !.error = error,
                                 !.context = context, !.issued = issued]]

\* A catch block that leaves the loop for every error.
LoopCatchGivesUp(running, kind) == LoopStep("done", kind, "", "")

\* catch (error) of _runLoop: break when the consumer was stopped; a sleep
\* for a getClient failure; _tryCreateGroup (which issues XGROUP CREATE when
\* it gets the client) for NOGROUP; a sleep for any other error.
LoopCatch(running, kind) ==
    IF ~running THEN LoopStep("done", kind, "", "")
    ELSE IF kind = "NOGROUP"
    THEN LoopStep("create", kind, ReadLoopContext(kind),
                  IF GetClientOk(clients[0]) THEN "XGROUP" ELSE "")
    ELSE LoopStep("sleep", kind, ReadLoopContext(kind), "")

\* try { redis = getClient(); await redis.xreadgroup(...) }
LoopRead ==
    IF GetClientOk(clients[0]) THEN LoopStep("read", "", "", "XREADGROUP")
    ELSE LoopCatch(TRUE, "[RedisConnection]")

\* A loop that does not test the flag at its head.
LoopTopUntested(running) == LoopRead

\* while (this.isRunning) { ... }: the activation returns when the flag is
\* clear and otherwise runs up to its next await.
LoopTop(running) ==
    IF ~running THEN LoopStep("done", "", "", "") ELSE LoopRead

\* A _runLoop activation resumes from the place where it was suspended.
LoopResumed(at, running, answer) ==
    CASE at = "read" /\ answer = "ok" ->
            IF running THEN LoopTop(running) ELSE LoopStep("done", "", "", "")
      [] at = "read" -> LoopCatch(running, answer)
      [] at = "create" -> LoopStep("sleep", "", "", "")
      [] OTHER -> LoopTop(running)

\* The bag of activations after one of them moved on.
LoopMoved(loops, at, next) ==
    (loops (-) SetToBag({at})) (+)
        (IF next = "done" THEN EmptyBag ELSE SetToBag({next}))

\* What the reclaim call does next and what the step reports.
TickStep(tick, error, context, issued) ==
    [tick |-> tick,
     report |-> [NoReport EXCEPT !.task = "tick", !.error = error,
                                 !.context = context, !.issued = issued]]

\* catch (error) of _claimAndReprocess: _tryCreateGroup for NOGROUP, then,
\* for every error, the 'error' event with context 'autoclaim'.
ClaimCatch(kind) ==
    IF kind = "NOGROUP"
    THEN TickStep("create", kind, "",
                  IF GetClientOk(clients[0]) THEN "XGROUP" ELSE "")
    ELSE TickStep("idle", kind, "autoclaim", "")

\* A callback whose failure clears the interval.
AfterClaimFailureCleared(c) == [c EXCEPT !.claimInterval = FALSE]

\* The Consumer after a reclaim call failed: the catch blocks (of
\* _claimAndReprocess and of the callback) log and emit, and touch neither
\* the interval nor the flag.
AfterClaimFailure(c) == c

\* A _tryCreateGroup that never creates the group.
TryCreateGroupsNever(answer) == groups

\* The group after XGROUP CREATE ... MKSTREAM of _tryCreateGroup, when the
\* command gets through (BUSYGROUP when the group exists).
TryCreateGroups(answer) ==
    IF answer = "other" THEN groups ELSE XgroupCreate(groups, {ConStream})

TryCreateStreams(answer) ==
    IF answer = "other" THEN streams ELSE MkStream(streams, {ConStream})

\* All ids of a batch, in order.
BatchIds(messages) == [i \in DOMAIN messages |-> messages[i].id]

\* The entries of a read batch that _runLoop passes to _processMessages: none
\* when the consumer was stopped during the read.
ReadBatchAlways(running, batch) == batch

\* if (!this.isRunning) break;
ReadBatch(running, batch) == IF running THEN batch ELSE <<>>

\* A Consumer that register has created and not started: the group exists
\* on its stream, the process is connected, the store reachable.
ConInit ==
    /\ redisClient = "null"
    /\ totalPartitions = 1
    /\ streams = (ConStream :> <<>>)
    /\ groups = (ConStream :> [last |-> 0, pel |-> EmptyMap])
    /\ nextId = 1
    /\ lastPub = NoPub
    /\ lastMsg = NoMsg
    /\ aCount = 0
    /\ aOwned = EmptyMap
    /\ ackLogic = "unchanged"
    /\ handlerKind = "pending"
    /\ isConnected = [pid \in Procs |-> pid = 0]
    /\ fleet = EmptyMap
    /\ consumers = EmptyMap
    /\ hist = EmptyMap
    /\ ticks = 0
    /\ NoPartitioner
    /\ clients = [pid \in Procs |-> IF pid = 0 THEN "ready" ELSE "null"]
    /\ managers = {0}
    /\ lastCall = NoCall
    /\ NoConsumer
    /\ NoCalls

\* A start() that does not look at the flag.
StartReturnsAtOnceNever(c) == FALSE

\* if (this.isRunning) { warn; return; }
StartReturnsAtOnce(c) == c.isRunning

\* consumer.start(): the flag is set, _runLoop is called and runs up to its
\* first await, and the interval is armed (an interval left behind is cleared
\* first).
ConStart ==
    /\ BagCardinality(con.loops) < MaxLoops
    /\ IF StartReturnsAtOnce(con)
       THEN con' = [con EXCEPT !.last = [NoReport EXCEPT !.task = "start",
                                                          !.noop = TRUE]]
       ELSE \E step \in {LoopTop(TRUE)} :
               con' = [con EXCEPT !.isRunning = TRUE,
                                  !.claimInterval = TRUE,
                                  !.loops = LoopMoved(@, "done", step.at),
                                  !.stopped = FALSE,
                                  !.last = [step.report EXCEPT !.task = "start"]]
    /\ UNCHANGED <<storeVars, pubVars, assignVars, runVars, partVars, lifeVars,
                   storeReachable, xautoclaim, raceVars>>

\* consumer.stop()
ConStop ==
    /\ con' = [ConsumerStop(con) EXCEPT
                  !.stopped = @ \/ con.isRunning,
                  !.everStopped = @ \/ con.isRunning,
                  !.last = [NoReport EXCEPT !.task = "stop",
                                            !.noop = ~con.isRunning]]
    /\ UNCHANGED <<storeVars, pubVars, assignVars, runVars, partVars, lifeVars,
                   storeReachable, xautoclaim, raceVars>>

\* A _runLoop activation suspended at the place `at` resumes: with the reply
\* to its XREADGROUP (the store delivers the new entries to the consumer,
\* whether or not it was stopped meanwhile), after _tryCreateGroup, or after
\* a sleep. It runs up to its next await or returns.
ConLoopResume(at) ==
    /\ BagIn(at, con.loops)
    /\ \E answer \in {StoreAnswer} :
       \E batch \in {IF at = "read" /\ answer = "ok"
                     THEN NewEntries(ConStream) ELSE <<>>} :
       \E passed \in {ReadBatch(con.isRunning, batch)} :
       \E ids \in {EventIds(ProcessMessages(passed))} :
       \E step \in {LoopResumed(at, con.isRunning, answer)} :
          /\ groups' = IF at = "create" THEN TryCreateGroups(answer)
                       ELSE IF batch # <<>>
                       THEN [groups EXCEPT
                               ![ConStream] = Xreadgroup(@, ConId, batch)]
                       ELSE groups
          /\ streams' = IF at = "create" THEN TryCreateStreams(answer)
                        ELSE streams
          /\ con' = [con EXCEPT
                        !.loops = LoopMoved(@, at, step.at),
                        !.inflight = Invoked(@, ids),
                        !.outage = IF @ = "down" /\ at = "read" /\ answer = "ok"
                                   THEN "over" ELSE @,
                        !.last = [step.report EXCEPT
                                     !.batch = BatchIds(passed),
                                     !.handed = ids,
                                     !.answer = IF at = "read" THEN answer
                                                ELSE ""]]
    /\ UNCHANGED <<redisClient, totalPartitions, nextId, pubVars, assignVars,
                   runVars, partVars, lifeVars, storeReachable, xautoclaim, raceVars>>

\* The interval callback fires while no earlier reclaim call is outstanding:
\* a running consumer calls _claimAndReprocess, which issues XAUTOCLAIM when
\* it gets the client; a consumer that is not running clears the interval.
ConTickFire ==
    /\ ticks < MaxConTicks
    /\ ticks' = ticks + 1
    /\ con.claimInterval
    /\ con.tick = "idle"
    /\ \E step \in {IF ~con.isRunning THEN TickStep("idle", "", "", "")
                    ELSE IF GetClientOk(clients[0])
                    THEN TickStep("xautoclaim", "", "", "XAUTOCLAIM")
                    ELSE ClaimCatch("[RedisConnection]")} :
       \E c \in {IF step.report.error # "" THEN AfterClaimFailure(con) ELSE con} :
          con' = [c EXCEPT !.tick = step.tick,
                           !.claimInterval = @ /\ con.isRunning,
                           !.tickFailed = @ \/ step.report.error # "",
                           !.last = step.report]
    /\ UNCHANGED <<storeVars, pubVars, assignVars, ackLogic, handlerKind,
                   isConnected, fleet, consumers, hist, partVars, lifeVars,
                   storeReachable, xautoclaim, raceVars>>

\* _claimAndReprocess resumes: with the reply to XAUTOCLAIM (the store has
\* given the idle entries to the consumer), which it passes to
\* _processMessages without looking at the flag, or after _tryCreateGroup.
ConTickResume ==
    /\ con.tick # "idle"
    /\ \E answer \in {IF con.tick = "xautoclaim" THEN XautoclaimAnswer
                     ELSE StoreAnswer} :
       \E ids \in {IF con.tick = "xautoclaim" /\ answer = "ok"
                   THEN XautoclaimIds(groups[ConStream], ClaimCount) ELSE <<>>} :
       \E handed \in {EventIds(ProcessMessages(ClaimedEntries(ConStream, ids)))} :
       \E step \in {CASE con.tick = "create" ->
                            TickStep("idle", "NOGROUP", "autoclaim", "")
                      [] answer = "ok" -> TickStep("idle", "", "", "")
                      [] OTHER -> ClaimCatch(answer)} :
       \E c \in {IF step.report.error # "" THEN AfterClaimFailure(con) ELSE con} :
          /\ groups' = IF con.tick = "create" THEN TryCreateGroups(answer)
                       ELSE IF ids # <<>>
                       THEN [groups EXCEPT
                               ![ConStream] = Xautoclaim(@, ConId, ids)]
                       ELSE groups
          /\ streams' = IF con.tick = "create" THEN TryCreateStreams(answer)
                        ELSE streams
          /\ con' = [c EXCEPT !.tick = step.tick,
                              !.inflight = Invoked(@, handed),
                              !.tickFailed = @ \/ step.report.error # "",
                              !.last = [step.report EXCEPT !.batch = ids,
                                                           !.handed = handed]]
    /\ UNCHANGED <<redisClient, totalPartitions, nextId, pubVars, assignVars,
                   runVars, partVars, lifeVars, storeReachable, xautoclaim, raceVars>>

\* A listener whose catch block stops the Consumer.
ListenerCatchStops(c) ==
    [c EXCEPT !.isRunning = FALSE, !.claimInterval = FALSE]

\* catch (processingError) of the 'message' listener: the error is logged.
ListenerCatch(c) == c

\* A handler invocation for entry id settles and the listener resumes; the
\* XACK of the ack closure takes effect when the command gets through.
ConHandlerSettles(id, outcome) ==
    /\ BagIn(id, con.inflight)
    /\ groups' = IF StoreAnswer = "ok"
                 THEN ListenerResume(groups, hist, 0, ConStream, {id}, outcome).groups
                 ELSE groups
    /\ con' = [(IF outcome = "threw" THEN ListenerCatch(con) ELSE con) EXCEPT
                  !.inflight = @ (-) SetToBag({id}),
                  !.last = [NoReport EXCEPT
                               !.task = "handler",
                               !.error = IF outcome = "threw" THEN "handler"
                                         ELSE "",
                               !.acked = IF groups' # groups
                                         THEN <<id>> ELSE <<>>]]
    /\ UNCHANGED <<redisClient, totalPartitions, streams, nextId, pubVars,
                   assignVars, runVars, partVars, lifeVars, storeReachable, xautoclaim, raceVars>>

\* The store comes to hold one more entry in the consumer's stream.
ConAppend(fields, maxEntries) ==
    /\ storeReachable
    /\ nextId <= maxEntries
    /\ streams' = IF ConStream \in DOMAIN streams
                  THEN [streams EXCEPT ![ConStream] = Append(@, Entry(nextId, fields))]
                  ELSE (ConStream :> <<Entry(nextId, fields)>>) @@ streams
    /\ nextId' = nextId + 1
    /\ UNCHANGED <<redisClient, totalPartitions, groups, pubVars, assignVars,
                   runVars, partVars, lifeVars, conVars, raceVars>>

\* The store stops answering: the client keeps its connection object and
\* tries to reconnect (retryStrategy always returns a delay).
Outage ==
    /\ storeReachable
    /\ storeReachable' = FALSE
    /\ con' = [con EXCEPT !.outage = "down",
                          !.last = [NoReport EXCEPT !.task = "outage"]]
    /\ UNCHANGED <<storeVars, pubVars, assignVars, runVars, partVars, lifeVars,
                   xautoclaim, raceVars>>

\* The store answers again and the client reconnects by itself.
Recovery ==
    /\ ~storeReachable
    /\ storeReachable' = TRUE
    /\ UNCHANGED <<storeVars, pubVars, assignVars, runVars, partVars, lifeVars,
                   con, xautoclaim, raceVars>>

\* The client's 'end' event in the consumer's process (disconnect() was
\* called): redisClient = null.
ConClientEnd ==
    /\ clients[0] = "ready"
    /\ clients' = [clients EXCEPT ![0] = "null"]
    /\ UNCHANGED <<storeVars, pubVars, assignVars, runVars, partVars, managers,
                   lastCall, conVars, raceVars>>

\* connect() is called again in the consumer's process and succeeds.
ConClientConnect ==
    /\ clients[0] = "null"
    /\ storeReachable
    /\ clients' = [clients EXCEPT ![0] = "ready"]
    /\ UNCHANGED <<storeVars, pubVars, assignVars, runVars, partVars, managers,
                   lastCall, conVars, raceVars>>

\* The key of the stream is deleted in the store, and the group with it.
KeyDeleted ==
    /\ storeReachable
    /\ ConStream \in DOMAIN groups
    /\ groups' = [s \in DOMAIN groups \ {ConStream} |-> groups[s]]
    /\ streams' = [s \in DOMAIN streams \ {ConStream} |-> streams[s]]
    /\ UNCHANGED <<redisClient, totalPartitions, nextId, pubVars, assignVars,
                   runVars, partVars, lifeVars, conVars, raceVars>>

ConNext ==
    \/ ConStart
    \/ ConStop
    \/ \E at \in {"read", "create", "sleep"} : ConLoopResume(at)
    \/ ConTickFire
    \/ ConTickResume
    \/ \E id \in 1 .. MaxConEntries : ConHandlerSettles(id, "returned")
    \/ \E id \in 1 .. MaxConEntries : ConHandlerSettles(id, "threw")
    \/ ConAppend(ConFields, MaxConEntries)
    \/ AdvanceTime
    \/ Outage
    \/ Recovery
    \/ ConClientEnd
    \/ ConClientConnect
    \/ KeyDeleted

SpecCon == ConInit /\ [][ConNext]_vars

\* Every await of the consumer completes: the store answers or the client
\* gives the command up, a sleep ends. The calls of the application and the
\* faults are not forced, nor is the interval timer.
ConFairness ==
    /\ \A at \in {"read", "create", "sleep"} : WF_vars(ConLoopResume(at))
    /\ WF_vars(ConTickResume)

SpecConFair == SpecCon /\ ConFairness

\* ---------------------------------------------------- batch specification

\* A started consumer on a reachable store whose stream comes to hold
\* entries with every kind of field list.
BatchNext ==
    \/ ConStart
    \/ ConLoopResume("read")
    \/ ConTickFire
    \/ ConTickResume
    \/ \E id \in 1 .. MaxBatchEntries : ConHandlerSettles(id, "returned")
    \/ \E id \in 1 .. MaxBatchEntries : ConHandlerSettles(id, "threw")
    \/ \E fields \in ConFieldLists : ConAppend(fields, MaxBatchEntries)
    \/ AdvanceTime

SpecBatch == ConInit /\ [][BatchNext]_vars

\* ------------------------------------------------ old-store specification

\* The consumer of the consumer specification on a store that does not know
\* XAUTOCLAIM: the store is reachable, the client is there and the group
\* exists throughout, so a reclaim call fails only with "unknown command".
OldStoreInit ==
    /\ redisClient = "null"
    /\ totalPartitions = 1
    /\ streams = (ConStream :> <<>>)
    /\ groups = (ConStream :> [last |-> 0, pel |-> EmptyMap])
    /\ nextId = 1
    /\ lastPub = NoPub
    /\ lastMsg = NoMsg
    /\ aCount = 0
    /\ aOwned = EmptyMap
    /\ ackLogic = "unchanged"
    /\ handlerKind = "pending"
    /\ isConnected = [pid \in Procs |-> pid = 0]
    /\ fleet = EmptyMap
    /\ consumers = EmptyMap
    /\ hist = EmptyMap
    /\ ticks = 0
    /\ NoPartitioner
    /\ clients = [pid \in Procs |-> IF pid = 0 THEN "ready" ELSE "null"]
    /\ managers = {0}
    /\ lastCall = NoCall
    /\ con = IdleConsumer
    /\ storeReachable = TRUE
    /\ xautoclaim = FALSE
    /\ NoCalls

OldStoreNext ==
    \/ ConStart
    \/ ConStop
    \/ ConLoopResume("read")
    \/ ConTickFire
    \/ ConTickResume
    \/ \E id \in 1 .. MaxBatchEntries : ConHandlerSettles(id, "returned")
    \/ \E id \in 1 .. MaxBatchEntries : ConHandlerSettles(id, "threw")
    \/ ConAppend(ConFields, MaxBatchEntries)
    \/ AdvanceTime

SpecOldStore == OldStoreInit /\ [][OldStoreNext]_vars

\* ----------------------------------------------- fatal-error specification

\* A handler of the rejection that only clears the flag (the handler of the
\* Consumer without reclaim).
FatalLoopErrorFlagOnly(c) == [c EXCEPT !.isRunning = FALSE]

\* this._runLoop().catch(err => { ... }): the flag is cleared, the interval
\* is cleared when there is one (this.claimInterval keeps the handle).
FatalLoopError(c) ==
    [c EXCEPT !.isRunning = FALSE, !.claimInterval = FALSE]

\* A _runLoop activation suspended at the place `at` resumes and an error
\* escapes it (a throw outside the try block or inside the catch block, such
\* as error.message.includes on a rejection without a message): the promise
\* of the activation is rejected and the handler that start() attached runs,
\* which emits 'error' with context 'fatal_loop_error'.
ConLoopFatal(at) ==
    /\ BagIn(at, con.loops)
    /\ con' = [FatalLoopError(con) EXCEPT
                  !.loops = LoopMoved(@, at, "done"),
                  !.last = [NoReport EXCEPT !.task = "fatal",
                                            !.error = "escaped",
                                            !.context = "fatal_loop_error"]]
    /\ UNCHANGED <<storeVars, pubVars, assignVars, runVars, partVars, lifeVars,
                   storeReachable, xautoclaim, raceVars>>

FatalNext ==
    \/ ConStart
    \/ ConStop
    \/ \E at \in {"read", "sleep"} : ConLoopResume(at)
    \/ \E at \in {"read", "sleep"} : ConLoopFatal(at)
    \/ ConTickFire
    \/ ConTickResume
    \/ \E id \in 1 .. MaxConEntries : ConHandlerSettles(id, "returned")
    \/ \E id \in 1 .. MaxConEntries : ConHandlerSettles(id, "threw")
    \/ ConAppend(ConFields, MaxConEntries)
    \/ AdvanceTime
    \/ Outage
    \/ Recovery

SpecFatal == ConInit /\ [][FatalNext]_vars

\* ------------------------------------------- register/stop specification

\* The partition loop of ConsumerManager.register in process pid, from its
\* head to its next await, over the assigned indices it has not come to (in
\* ascending order): an index whose key is in the registry is skipped, an
\* index for which getClient throws is given up (the catch block logs), and
\* the loop awaits the XGROUP CREATE of the first index that remains; the
\* call resolves when none remains.
RegisterRun(pid, todo) ==
    LET tried == Tried(todo, Registry(pid))
        awaited == IF GetClientOk(clients[pid]) THEN tried ELSE {}
    IN  IF awaited = {}
        THEN [at |-> "done", index |-> 0, todo |-> {}]
        ELSE LET index == CHOOSE i \in awaited : \A j \in awaited : i <= j
             IN  [at |-> "ensure", index |-> index,
                  todo |-> {i \in todo : i > index}]

\* A connected worker process that has not registered.
RaceInit ==
    /\ redisClient = "null"
    /\ totalPartitions = TotalPartitions
    /\ streams = EmptyMap
    /\ groups = EmptyMap
    /\ nextId = 1
    /\ lastPub = NoPub
    /\ lastMsg = NoMsg
    /\ aCount = 0
    /\ aOwned = EmptyMap
    /\ ackLogic = "unchanged"
    /\ handlerKind = "pending"
    /\ isConnected = [pid \in Procs |-> pid = 0]
    /\ fleet = EmptyMap
    /\ consumers = EmptyMap
    /\ hist = EmptyMap
    /\ ticks = 0
    /\ NoPartitioner
    /\ clients = [pid \in Procs |-> IF pid = 0 THEN "ready" ELSE "null"]
    /\ managers = {0}
    /\ lastCall = NoCall
    /\ NoConsumer
    /\ NoCalls

\* QTask.register -> ConsumerManager.register is called in process 0 and
\* runs up to its first await.
RaceRegister(instanceId, instanceCount) ==
    /\ calls.register.at = "none"
    /\ LET assigned == AssignedIndices(instanceId, instanceCount, totalPartitions)
           indices == {assigned.indices[i] : i \in DOMAIN assigned.indices}
       IN  calls' = [calls EXCEPT
                        !.register =
                            IF NotConnected(0) \/ ~assigned.ok
                            THEN [at |-> "done", index |-> 0, todo |-> {}]
                            ELSE RegisterRun(0, indices)]
    /\ UNCHANGED <<storeVars, pubVars, assignVars, runVars, partVars, lifeVars,
                   conVars, pool>>

\* The reply to the XGROUP CREATE that register awaits arrives (an "ok"
\* reply, which stands for BUSYGROUP too, needs the connection on which the
\* command was sent): for "ok" a Consumer is created for the index, its
\* listeners attached, it is started and stored under its key; for an error
\* the catch block logs. The loop then runs up to its next await.
RaceRegisterResume(reply) ==
    /\ calls.register.at = "ensure"
    /\ reply = "ok" => GetClientOk(clients[0])
    /\ LET index == calls.register.index
           made == IF reply = "ok" THEN {index} ELSE {}
       IN  /\ streams' = MkStream(streams, {StreamOf(i) : i \in made})
           /\ groups' = XgroupCreate(groups, {StreamOf(i) : i \in made})
           /\ consumers' = [k \in {<<0, i>> : i \in made} |->
                               StartedConsumer] @@ consumers
    /\ calls' = [calls EXCEPT
                    !.register = RegisterRun(0, calls.register.todo)]
    /\ UNCHANGED <<redisClient, totalPartitions, nextId, pubVars, assignVars,
                   ackLogic, handlerKind, isConnected, fleet, hist, ticks,
                   partVars, lifeVars, conVars, pool>>

\* ConsumerManager.stopAll(), called directly ("stopAll") or by QTask.stop()
\* ("stop"), up to its await: every Consumer of the registry is stopped and
\* the registry cleared; the call sleeps when the registry held a Consumer,
\* and otherwise returns, after which QTask.stop() calls disconnect().
RaceStop(kind) ==
    /\ calls.stop.kind = "none"
    /\ 0 \in managers
    /\ consumers' = StoppedAll(0)
    /\ calls' = [calls EXCEPT
                    !.stop = [kind |-> kind,
                              at |-> IF Registry(0) # {} THEN "wait"
                                     ELSE IF kind = "stop" THEN "quit"
                                     ELSE "done"],
                    !.overlap = calls.register.at = "ensure"]
    /\ UNCHANGED <<storeVars, pubVars, assignVars, ackLogic, handlerKind,
                   isConnected, fleet, hist, ticks, partVars, lifeVars,
                   conVars, pool>>

\* The sleep of stopAll ends.
RaceStopWaitEnds ==
    /\ calls.stop.at = "wait"
    /\ calls' = [calls EXCEPT
                    !.stop.at = IF calls.stop.kind = "stop" THEN "quit"
                                ELSE "done"]
    /\ UNCHANGED <<storeVars, pubVars, assignVars, runVars, partVars, lifeVars,
                   conVars, pool>>

\* client.quit() of disconnect() resolves: redisClient = null, and
\* QTask.stop() clears its flag and resolves.
RaceQuitEnds ==
    /\ calls.stop.at = "quit"
    /\ clients' = [clients EXCEPT ![0] = "null"]
    /\ isConnected' = [isConnected EXCEPT ![0] = FALSE]
    /\ calls' = [calls EXCEPT !.stop.at = "done"]
    /\ UNCHANGED <<storeVars, pubVars, assignVars, ackLogic, handlerKind,
                   fleet, consumers, hist, ticks, partVars, managers, lastCall,
                   conVars, pool>>

RaceNext ==
    \/ \E instanceCount \in 1 .. NumProcs : \E instanceId \in 0 .. instanceCount :
          RaceRegister(instanceId, instanceCount)
    \/ \E reply \in StoreReplies : RaceRegisterResume(reply)
    \/ \E kind \in {"stopAll", "stop"} : RaceStop(kind)
    \/ RaceStopWaitEnds
    \/ RaceQuitEnds
    \/ \E pid \in LifeProcs : ClientEnd(pid)

SpecRace == RaceInit /\ [][RaceNext]_vars

\* ------------------------------------------------ connection specification

\* Clients that connect() creates in one run.
MaxClients == 3

\* connect(options, log) is called and runs up to its await: it returns
\* redisClient when that is set, and otherwise creates a client and awaits
\* client.connect().
PoolConnect ==
    /\ pool.created < MaxClients
    /\ pool' = IF pool.shared # 0 THEN pool
               ELSE [pool EXCEPT !.created = @ + 1,
                                 !.connecting = @ \cup {pool.created + 1}]
    /\ UNCHANGED <<storeVars, pubVars, assignVars, runVars, partVars, lifeVars,
                   conVars, calls>>

\* client.connect() of a connect() call resolves: redisClient = client.
PoolConnected(client) ==
    /\ client \in pool.connecting
    /\ pool' = [pool EXCEPT !.connecting = @ \ {client},
                            !.live = @ \cup {client},
                            !.shared = client]
    /\ UNCHANGED <<storeVars, pubVars, assignVars, runVars, partVars, lifeVars,
                   conVars, calls>>

\* client.connect() rejects: the catch block closes the client with quit()
\* and rethrows; redisClient is not touched.
PoolConnectFails(client) ==
    /\ client \in pool.connecting
    /\ pool' = [pool EXCEPT !.connecting = @ \ {client}]
    /\ UNCHANGED <<storeVars, pubVars, assignVars, runVars, partVars, lifeVars,
                   conVars, calls>>

\* disconnect() is called while redisClient is set and runs up to
\* await redisClient.quit().
PoolDisconnect ==
    /\ pool.shared # 0
    /\ pool.quitting = 0
    /\ pool' = [pool EXCEPT !.quitting = pool.shared]
    /\ UNCHANGED <<storeVars, pubVars, assignVars, runVars, partVars, lifeVars,
                   conVars, calls>>

\* quit() resolves: the client ends, its 'end' listener sets redisClient to
\* null, and so does disconnect() when it resumes.
PoolQuitEnds ==
    /\ pool.quitting # 0
    /\ pool' = [pool EXCEPT !.live = @ \ {pool.quitting},
                            !.shared = 0,
                            !.quitting = 0]
    /\ UNCHANGED <<storeVars, pubVars, assignVars, runVars, partVars, lifeVars,
                   conVars, calls>>

ConnectNext ==
    \/ PoolConnect
    \/ \E client \in 1 .. MaxClients : PoolConnected(client)
    \/ \E client \in 1 .. MaxClients : PoolConnectFails(client)
    \/ PoolDisconnect
    \/ PoolQuitEnds

SpecConnect == LifeInit /\ [][ConnectNext]_vars

\* ---------------------------------------------- delivery specification

\* The store answers the XREADGROUP of every consumer and the event loop
\* resumes its _runLoop with the reply. Nothing else is forced: not the
\* application's calls (connect, publish, register), not the settling of a
\* handler invocation, not the interval timer.
DeliverFairness ==
    \A k \in ConsumerKeys :
        /\ WF_vars(ReclaimServe(k))
        /\ WF_vars(ReclaimRead(k))

\* The runtime specification with a store that answers: no consumer is
\* stopped and the store stays reachable.
SpecDeliver == Spec /\ DeliverFairness

\* ================================================================== claims

\* ---- C1 ----------------------------------------------------------------
\* When the handler throws for a delivered entry, the step in which the
\* listener resumes issues no XACK for the entry and changes no pending
\* list: the entry stays pending in the group of its partition stream.
C1_NoAckOnThrow ==
    [][\A id \in DOMAIN hist :
          hist'[id].threw > hist[id].threw =>
             /\ hist'[id].xack = hist[id].xack
             /\ groups' = groups
      ]_vars

\* With the first variant's ack closure in place, a handler has thrown for
\* an entry that was handed on once: no XACK was issued and it is pending.
C1_Witness ==
    /\ ackLogic = "unchanged"
    /\ \E id \in DOMAIN hist : \E s \in DOMAIN groups :
          /\ hist[id].handed = 1
          /\ hist[id].threw = 1
          /\ hist[id].xack = 0
          /\ id \in DOMAIN groups[s].pel

\* ---- C2 ----------------------------------------------------------------
\* When the handler has returned normally for an entry (and the listener has
\* gone on to the ack closure), exactly one XACK has been issued for the
\* entry's id: not zero, not two, whatever reads and reclaim ticks occurred.
C2_ExactlyOneXack ==
    \A id \in DOMAIN hist :
        hist[id].returned >= 1 => hist[id].xack = 1

\* ---- C3 ----------------------------------------------------------------
\* At-least-once: an entry whose handler threw before it was acknowledged
\* is, while a consumer of the group keeps running on the stream and the
\* store is reachable, eventually claimed by a reclaim tick and handed to
\* the handler again.
C3_EventuallyReclaimed ==
    \A id \in 1 .. ReclaimEntries :
        (id \in DOMAIN hist /\ hist[id].threw >= 1)
           ~> (id \in DOMAIN hist /\ hist[id].claimed >= 1)


\* ---- C5 ----------------------------------------------------------------
\* In a fleet whose members registered with one instanceCount and with the
\* instanceIds 0 .. instanceCount-1, one each, no entry is handed to a
\* handler more than once as long as no handler invocation has thrown.
C5_ValidFleet ==
    /\ fleet # EmptyMap
    /\ \A p, q \in DOMAIN fleet :
          /\ fleet[p].instanceCount = fleet[q].instanceCount
          /\ (p # q => fleet[p].instanceId # fleet[q].instanceId)
    /\ \A p \in DOMAIN fleet :
          {fleet[q].instanceId : q \in DOMAIN fleet} = 0 .. fleet[p].instanceCount - 1

C5_HandledExactlyOnce ==
    (C5_ValidFleet /\ \A id \in DOMAIN hist : hist[id].threw = 0) =>
        \A id \in DOMAIN hist : hist[id].handed <= 1

\* ---- C6 ----------------------------------------------------------------
\* For one consumer at most one handler invocation is in progress at any
\* time, whether the entries come from one batch, from the next read or from
\* a reclaim tick.
C6_OneHandlerAtATime ==
    \A k \in DOMAIN consumers : BagCardinality(consumers[k].inflight) <= 1

\* ---- C7 ----------------------------------------------------------------
\* For one consumer the ids handed to the handler from group reads, taken in
\* the order in which the invocations began, are strictly increasing, within
\* a batch and from one batch to the next.
RECURSIVE C7_Flatten(_)
C7_Flatten(batches) ==
    IF batches = <<>> THEN <<>> ELSE Head(batches) \o C7_Flatten(Tail(batches))

C7_ReadOrder ==
    \A k \in DOMAIN consumers :
        LET ids == C7_Flatten(consumers[k].readLog)
        IN  \A i, j \in DOMAIN ids : i < j => ids[i] < ids[j]

\* A consumer was handed two entries of one batch.
C7_Witness ==
    \E k \in DOMAIN consumers : \E i \in DOMAIN consumers[k].readLog :
        /\ Len(consumers[k].readLog[i]) = 2
        /\ BagCardinality(consumers[k].inflight) = 2

\* ---- C4 ----------------------------------------------------------------
\* Assignment cover: for totalPartitions >= 1 and instanceCount >= 1 the index
\* sets computed for the instanceIds 0 .. instanceCount-1 are pairwise
\* disjoint, each index of [0, totalPartitions) is in the set of the instance
\* i mod instanceCount, and once all are computed their union is
\* [0, totalPartitions).
C4_Range(seq) == {seq[i] : i \in DOMAIN seq}

C4_Members == DOMAIN aOwned \cap (0 .. aCount - 1)

C4_AssignmentCover ==
    /\ \A a \in C4_Members : aOwned[a].ok
    /\ \A a, b \in C4_Members :
          a # b => C4_Range(aOwned[a].indices) \cap C4_Range(aOwned[b].indices) = {}
    /\ \A a \in C4_Members :
          C4_Range(aOwned[a].indices) \subseteq 0 .. totalPartitions - 1
    /\ \A i \in 0 .. totalPartitions - 1 :
          (i % aCount) \in C4_Members => i \in C4_Range(aOwned[i % aCount].indices)
    /\ C4_Members = 0 .. aCount - 1 =>
          UNION {C4_Range(aOwned[a].indices) : a \in C4_Members}
             = 0 .. totalPartitions - 1

\* A fleet of three over five partitions has computed all its sets.
C4_Witness ==
    /\ totalPartitions = 5
    /\ aCount = 3
    /\ C4_Members = 0 .. 2
    /\ aOwned[1].indices = <<1, 4>>

\* ---- C8 ----------------------------------------------------------------
\* A publish that succeeds appends exactly one entry, to the stream named
\* baseTopic ":" getPartition(key), and changes no other stream; with four
\* partitions the key "abc" on topic "T" addresses "T:2".
C8_Target(baseTopic, partitionKey) ==
    baseTopic \o ":"
    \o ToString(CHOOSE i \in getPartition(partitionKey, totalPartitions) : TRUE)

C8_PublishAppendsToPartitionStream ==
    [][(lastPub'.seq # lastPub.seq /\ lastPub'.result # 0) =>
        LET t == C8_Target(lastPub'.topic, lastPub'.key)
            before == IF t \in DOMAIN streams THEN streams[t] ELSE <<>>
        IN  /\ DOMAIN streams' = DOMAIN streams \cup {t}
            /\ Len(streams'[t]) = Len(before) + 1
            /\ SubSeq(streams'[t], 1, Len(before)) = before
            /\ streams'[t][Len(before) + 1].id = lastPub'.result
            /\ \A s \in DOMAIN streams \ {t} : streams'[s] = streams[s]
            /\ (totalPartitions = 4 /\ lastPub'.topic = "T" /\ lastPub'.key = KeyAbc
                  => t = "T:2")
      ]_vars

\* Two publishes have succeeded, the second with key "abc" under four
\* partitions, and two streams exist.
C8_Witness ==
    /\ lastPub.seq >= 2
    /\ lastPub.result = 2
    /\ totalPartitions = 4
    /\ lastPub.key = KeyAbc
    /\ DOMAIN streams = {"T:1", "T:2"}
    /\ Len(streams["T:2"]) = 1

\* ---- C9 ----------------------------------------------------------------
\* The field list handed to XADD is the reference encoding of the payload:
\* the flattened pairs of a non-empty mapping without null/undefined values,
\* ["message", JSON] for a mapping with such a value, the placeholder pair
\* for the empty mapping, ["message", s] for a string s and ["message", JSON]
\* for any other value.
C9_Reference(p) ==
    CASE p.t = "obj" /\ p.props = <<>> ->
            <<Str("_placeholder"), Str("empty_object")>>
      [] p.t = "obj" /\ p.props # <<>>
           /\ (\E i \in DOMAIN p.props : IsNullish(p.props[i].v)) ->
            <<Str("message"), Str(JsonStringify(p))>>
      [] p.t = "obj" /\ p.props # <<>>
           /\ (\A i \in DOMAIN p.props : ~IsNullish(p.props[i].v)) ->
            [i \in 1 .. 2 * Len(p.props) |->
                IF i % 2 = 1 THEN Str(p.props[(i + 1) \div 2].k)
                ELSE p.props[i \div 2].v]
      [] p.t = "str" -> <<Str("message"), Str(p.s)>>
      [] OTHER -> <<Str("message"), Str(JsonStringify(p))>>

C10_FlatStringMap(p) ==
    p.t = "obj" /\ \A i \in DOMAIN p.props : p.props[i].v.t = "str"

C10_Processed ==
    lastPub.result # 0 /\ lastMsg.of = lastPub.result

C10_RoundTripAnyFlatPayload ==
    (C10_Processed /\ C10_FlatStringMap(lastPub.payload)) =>
        lastMsg.emitted = <<[id |-> lastPub.result, data |-> lastPub.payload]>>

\* As amended: the same for every flat string-to-string payload that is not
\* empty and has no own key "__proto__".
C10_RoundTripNonEmpty ==
    (/\ C10_Processed
     /\ C10_FlatStringMap(lastPub.payload)
     /\ lastPub.payload.props # <<>>
     /\ ~HasKey(lastPub.payload.props, "__proto__")) =>
        lastMsg.emitted = <<[id |-> lastPub.result, data |-> lastPub.payload]>>

\* A two-key payload, inserted as b then 1, has gone round.
C10_Witness ==
    /\ C10_Processed
    /\ lastPub.payload = Obj(<<Prop("1", Str("y")), Prop("b", Str("x"))>>)
    /\ lastMsg.emitted = <<[id |-> lastPub.result, data |-> lastPub.payload]>>

\* ---- C11 ---------------------------------------------------------------
\* simpleStringHash(k) is the absolute value of the hash computed by the
\* recurrence h := 31 * h + c over the code units of k, from h = 0, wrapped
\* to a signed 32-bit integer after every code unit; "" gives 0, "a" 97,
\* "abc" 96354 and "hello" 99162322.
RECURSIVE C11_Recurrence(_, _)
C11_Recurrence(h, codes) ==
    IF codes = <<>> THEN h
    ELSE LET low == 31 * (h % Half) + Head(codes)
             high == 31 * (h \div Half) + (low \div Half)
             wrapped == ((high + Half \div 2) % Half) - Half \div 2
         IN  C11_Recurrence(wrapped * Half + (low % Half), Tail(codes))

C11_IsAbs(x, h) ==
    /\ ~x.neg
    /\ IF h < 0 /\ h + 2147483647 < 0
       THEN x.mag = Word(Half \div 2, 0)
       ELSE WordValue(x.mag) = (IF h < 0 THEN 0 - h ELSE h)

C11_HashIsAbsOfRecurrence ==
    pHash # <<>> =>
        /\ C11_IsAbs(pHash[1], C11_Recurrence(0, pKey.codes))
        /\ pKey.codes = <<>> => WordValue(pHash[1].mag) = 0
        /\ pKey = KeyA => WordValue(pHash[1].mag) = 97
        /\ pKey = KeyAbc => WordValue(pHash[1].mag) = 96354
        /\ pKey = KeyHello => WordValue(pHash[1].mag) = 99162322

\* The hash of "zzzzzz", whose recurrence wraps around and ends at
\* -685785664, was computed.
C11_Witness ==
    /\ pKey = KeyNegative
    /\ pHash # <<>>
    /\ C11_Recurrence(0, pKey.codes) = 0 - 685785664
    /\ WordValue(pHash[1].mag) = 685785664

\* ---- C12 ---------------------------------------------------------------
\* For every totalPartitions >= 1 and every key (a string, a number, null
\* or undefined, the empty string, a key whose 32-bit hash is negative or is
\* -2^31) getPartition returns an integer i with 0 <= i < totalPartitions.
C12_IndexInRange ==
    \A inst \in Instances : \A n \in DOMAIN pIndex[inst] :
        pIndex[inst][n] \in 0 .. pTotal - 1

\* getPartition was asked about the key whose 32-bit hash is -2^31, with
\* three partitions.
C12_Witness ==
    /\ pKey = KeyMinInt
    /\ pTotal = 3
    /\ Int32Number(HashLoop(Word(0, 0), pKey.codes)) = Number32(TRUE, Word(Half \div 2, 0))
    /\ pIndex[1] # <<>>

C14_Missing(pub) ==
    \/ pub.topic = ""
    \/ pub.key.t \in {"null", "undef"}
    \/ pub.payload.t \in {"null", "undef"}

C14_FailedPublishAppendsNothing ==
    [][lastPub'.seq = lastPub.seq + 1 =>
          /\ (C14_Missing(lastPub') \/ redisClient # "ready") =>
                /\ lastPub'.result = 0
                /\ lastPub'.outcome = "resolved"
                /\ lastPub'.xadds = 0
                /\ streams' = streams
          /\ (lastPub'.retry /\ redisClient = "ready" /\ lastPub'.reply # "error") =>
                /\ lastPub'.result # 0
                /\ lastPub'.target \in DOMAIN streams'
                /\ \E i \in DOMAIN streams'[lastPub'.target] :
                      streams'[lastPub'.target][i].id = lastPub'.result
      ]_vars

\* A publish that had returned null because the store was not connected was
\* repeated with the same arguments after connect() and returned an id.
C14_Witness ==
    /\ lastPub.retry
    /\ lastPub.client = "ready"
    /\ lastPub.result # 0

\* ---- C15 ---------------------------------------------------------------
\* publish never rejects; when the store refuses the XADD, publish has
\* issued that one XADD and no other, and resolves to null.
C15_XaddErrorResolvesNull ==
    /\ lastPub.outcome = "resolved"
    /\ lastPub.reply = "error" => (lastPub.xadds = 1 /\ lastPub.result = 0)

\* ---- C16 ---------------------------------------------------------------
\* QTask's flag is set exactly while connect() has succeeded and stop() has
\* not completed since; a register or publish call made while it is not set
\* is rejected with the not-connected error, issues no stream command and
\* leaves the store and every consumer as they were.
C16_NotConnectedFailsFast ==
    [][lastCall'.seq = lastCall.seq + 1 =>
          LET pid == lastCall'.pid
          IN  /\ lastCall'.op = "stop" => ~isConnected'[pid]
              /\ lastCall'.op = "connect" =>
                    (isConnected'[pid] <=> lastCall'.outcome = "resolved")
              /\ lastCall'.op \notin {"connect", "stop"} =>
                    isConnected' = isConnected
              /\ (lastCall'.op \in {"register", "publish"} /\ ~isConnected[pid]) =>
                    /\ lastCall'.outcome = "rejected"
                    /\ lastCall'.error = "NotConnected"
                    /\ lastCall'.cmds = 0
                    /\ storeVars' = storeVars
                    /\ consumers' = consumers
      ]_vars

\* register was rejected as not connected after connect(), a register that
\* started a consumer, and stop().
C16_Witness ==
    /\ lastCall.op = "register"
    /\ lastCall.error = "NotConnected"
    /\ lastCall.prev = "stop"
    /\ lastCall.pid \in managers
    /\ \E k \in DOMAIN consumers : k[1] = lastCall.pid

\* ---- C17 ---------------------------------------------------------------
\* When group creation for an owned partition fails because the store is
\* unavailable (getClient throws), register rejects and no consumer is
\* started for that partition or a later one.
C17_TransportFailureRejects ==
    (lastCall.op = "register" /\ lastCall.transport) =>
        /\ lastCall.outcome = "rejected"
        /\ \A f \in lastCall.failed : \A index \in lastCall.started : index < f

C19_RegisteredKeyIsSkipped ==
    [][(lastCall'.seq = lastCall.seq + 1 /\ lastCall'.op = "register") =>
          \A k \in DOMAIN consumers :
              (k[1] = lastCall'.pid /\ consumers[k].registered) =>
                  /\ consumers'[k] = consumers[k]
                  /\ k[2] \notin lastCall'.ensured
                  /\ k[2] \notin lastCall'.started
      ]_vars

\* A second register, with another handler, skipped a partition whose
\* consumer holds the first handler.
C19_Witness ==
    /\ lastCall.op = "register"
    /\ lastCall.outcome = "resolved"
    /\ \E index \in lastCall.skipped :
          /\ consumers[<<lastCall.pid, index>>].registered
          /\ consumers[<<lastCall.pid, index>>].handler # lastCall.handler

\* ---- C20 ---------------------------------------------------------------
\* After stopAll() the registry is empty and every consumer that was in it
\* is not running; stopAll() issues no store command, and on an empty
\* registry (a second call, or no consumers) it changes nothing.
C20_StopAllEmptiesRegistry ==
    [][(lastCall'.seq = lastCall.seq + 1 /\ lastCall'.op = "stopAll") =>
          LET pid == lastCall'.pid
          IN  /\ DOMAIN consumers' = DOMAIN consumers
              /\ \A k \in DOMAIN consumers :
                    k[1] = pid =>
                       /\ ~consumers'[k].registered
                       /\ consumers[k].registered => ~consumers'[k].isRunning
              /\ lastCall'.cmds = 0
              /\ lastCall'.outcome = "resolved"
              /\ storeVars' = storeVars
              /\ Registry(pid) = {} =>
                    /\ consumers' = consumers
                    /\ <<pubVars, assignVars, ackLogic, handlerKind, isConnected,
                         fleet, hist, ticks, partVars, clients, managers>>' =
                       <<pubVars, assignVars, ackLogic, handlerKind, isConnected,
                         fleet, hist, ticks, partVars, clients, managers>>
      ]_vars

\* stopAll() was called a second time, after a stopAll() that stopped a
\* consumer.
C20_Witness ==
    /\ lastCall.op = "stopAll"
    /\ lastCall.prev = "stopAll"
    /\ \E k \in DOMAIN consumers :
          /\ k[1] = lastCall.pid
          /\ ~consumers[k].isRunning
          /\ ~consumers[k].registered

\* ---- C21 ---------------------------------------------------------------
\* A start() call on a consumer that is running returns at its first test:
\* the flag stays true, no _runLoop activation is added, the interval and
\* the outstanding reclaim call are untouched and the store is not changed.
C21_StartOnRunningIsNoOp ==
    [][(con' # con /\ con'.last.task = "start" /\ con.isRunning)
          => /\ con'.last.noop
             /\ con'.isRunning
             /\ con'.loops = con.loops
             /\ con' = [con EXCEPT !.last = con'.last]
             /\ UNCHANGED <<streams, groups, ticks>>]_vars

\* start() has just returned early on a running consumer whose _runLoop
\* activation is suspended and whose interval is armed.
C21_Witness ==
    /\ con.last.task = "start"
    /\ con.last.noop
    /\ con.isRunning
    /\ con.claimInterval
    /\ BagCardinality(con.loops) = 1

\* ---- C22 ---------------------------------------------------------------
\* Stopped is terminal: a consumer on which stop() has once taken effect is
\* never running again, whatever start() and stop() calls follow.
C22_StoppedIsTerminal == con.everStopped => ~con.isRunning

C26_NoLoss ==
    \A s \in DOMAIN groups : \A id \in DOMAIN groups[s].pel :
        \/ s \notin DOMAIN groups'
        \/ id \in DOMAIN groups'[s].pel
        \/ con'.last.task = "handler" /\ con'.last.acked = <<id>>

C26_OutageLeavesConsumerRunning ==
    /\ [][/\ con'.isRunning # con.isRunning => con'.last.task \in {"start", "stop"}
          /\ con'.isRunning => con'.claimInterval
          /\ C26_NoLoss]_vars
    /\ ((con.isRunning /\ storeReachable /\ con.outage = "down")
          ~> \/ con.outage = "over"
             \/ ~con.isRunning
             \/ ~storeReachable
             \/ ~GetClientOk(clients[0])
             \/ ConStream \notin DOMAIN groups)

\* After an outage the running consumer has had an XREADGROUP answered with
\* an entry, which it handed on, and an entry is pending.
C26_Witness ==
    /\ con.outage = "over"
    /\ con.isRunning
    /\ con.claimInterval
    /\ con.last.task = "loop"
    /\ con.last.handed # <<>>
    /\ DOMAIN groups[ConStream].pel # {}

\* ---- C27 ---------------------------------------------------------------
\* Of a batch passed to _processMessages (a group read or a claim), exactly
\* the entries with a non-empty field list of even length are handed to the
\* handler, in order; and an entry with an empty or odd field list that was
\* delivered to the group is still in the pending list.
C27_Fields(id) ==
    (CHOOSE e \in {streams[ConStream][i] : i \in DOMAIN streams[ConStream]} :
        e.id = id).fields

C27_Malformed(fields) == Len(fields) = 0 \/ Len(fields) % 2 = 1

C27_MalformedEntrySkipped ==
    /\ con.last.handed =
          SelectSeq(con.last.batch, LAMBDA id : ~C27_Malformed(C27_Fields(id)))
    /\ \A i \in DOMAIN streams[ConStream] :
          LET e == streams[ConStream][i]
          IN  (C27_Malformed(e.fields) /\ e.id <= groups[ConStream].last)
                 => e.id \in DOMAIN groups[ConStream].pel

\* A batch of two entries, one with an odd or empty field list and one well
\* formed, has been processed: one entry was handed on, the other is
\* pending.
C27_Witness ==
    /\ Len(con.last.batch) = 2
    /\ Len(con.last.handed) = 1
    /\ \E i \in DOMAIN con.last.batch :
          /\ C27_Malformed(C27_Fields(con.last.batch[i]))
          /\ con.last.batch[i] \in DOMAIN groups[ConStream].pel

\* ---- C28 ---------------------------------------------------------------
\* A reclaim call that fails (getClient throws, NOGROUP, any other
\* XAUTOCLAIM error) leaves the interval armed and the flag set: the
\* interval of a running consumer is always armed, so its callback fires
\* again.
C28_TickFailureKeepsTicker ==
    [][/\ (con' # con /\ con'.last.task = "tick" /\ con'.last.error # "")
             => /\ con'.claimInterval = con.claimInterval
                /\ con'.isRunning = con.isRunning
       /\ con'.isRunning => con'.claimInterval]_vars

\* After a reclaim call failed, the callback has fired again and issued
\* XAUTOCLAIM.
C28_Witness ==
    /\ con.tickFailed
    /\ con.last.task = "tick"
    /\ con.last.issued = "XAUTOCLAIM"
    /\ con.isRunning
    /\ con.claimInterval

\* ---- C29 ---------------------------------------------------------------
\* Every entry that is pending and has been idle for minIdleTimeMs is, while
\* the consumer runs, claimed by a reclaim tick (or leaves the pending
\* list), however many other entries are pending.
C29_IdleEntryIsClaimed ==
    \A id \in 1 .. ReclaimEntries :
        \A s \in {getPartitionStreamName(BaseTopic, i, TotalPartitions) :
                     i \in 0 .. TotalPartitions - 1} :
            (/\ s \in DOMAIN groups
             /\ id \in DOMAIN groups[s].pel
             /\ groups[s].pel[id].idle >= MinIdle)
               ~> (\/ id \in DOMAIN hist /\ hist[id].claimed >= 1
                   \/ s \notin DOMAIN groups
                   \/ id \notin DOMAIN groups[s].pel)

\* ---- C30 ---------------------------------------------------------------
\* Every failure the read loop of a running consumer catches is reported by
\* an 'error' event whose context names its kind.
C30_Context(kind) ==
    CASE kind = "[RedisConnection]" -> "readloop_redis_conn"
      [] kind = "NOGROUP" -> "readloop_nogroup"
      [] OTHER -> "readloop_xreadgroup"

C30_ReadLoopFailureReported ==
    (con.last.task \in {"loop", "start"} /\ con.last.error # "" /\ con.isRunning)
       => con.last.context = C30_Context(con.last.error)

\* ---- C31 ---------------------------------------------------------------
\* A running consumer whose XREADGROUP fails with NOGROUP calls
\* _tryCreateGroup (XGROUP CREATE ... "0" MKSTREAM when it gets the client)
\* before it reads again, and a _tryCreateGroup whose command gets through
\* leaves the group in place. While the consumer runs, the store answers and
\* the client is there, a missing group eventually exists again, and with
\* the group in place an XREADGROUP of the consumer is eventually answered
\* without error.
C31_Unserved ==
    \/ ~con.isRunning
    \/ ~storeReachable
    \/ ~GetClientOk(clients[0])

C31_GroupIsRecreated ==
    /\ [][/\ (con' # con /\ con'.last.task = "loop" /\ con.isRunning
                /\ con'.last.error = "NOGROUP")
             => /\ CopiesIn("create", con'.loops) = CopiesIn("create", con.loops) + 1
                /\ GetClientOk(clients[0]) => con'.last.issued = "XGROUP"
          /\ (/\ CopiesIn("create", con'.loops) < CopiesIn("create", con.loops)
              /\ storeReachable /\ GetClientOk(clients[0]))
             => ConStream \in DOMAIN groups']_vars
    /\ ((con.isRunning /\ ConStream \notin DOMAIN groups)
          ~> (ConStream \in DOMAIN groups \/ C31_Unserved))
    /\ ((con.isRunning /\ ConStream \in DOMAIN groups)
          ~> \/ con.last.answer = "ok"
             \/ ConStream \notin DOMAIN groups
             \/ C31_Unserved)

\* The key was deleted after an entry had been appended, no interval
\* callback has fired, and the running consumer has just had an XREADGROUP
\* answered without error on the group that its read loop created again.
C31_Witness ==
    /\ con.isRunning
    /\ ticks = 0
    /\ nextId > 1
    /\ ConStream \in DOMAIN groups
    /\ streams[ConStream] = <<>>
    /\ con.last.task = "loop"
    /\ con.last.answer = "ok"

\* ---- C32 ---------------------------------------------------------------
\* On a store that does not know XAUTOCLAIM, the first reclaim call that
\* fails emits one 'error' event with context "autoclaim_unsupported", and
\* from then on no interval callback issues XAUTOCLAIM or emits an event.
C32_UnsupportedReportedOnce ==
    [][(con' # con /\ con'.last.task = "tick" /\ ~xautoclaim)
          => /\ con'.last.error = "unknown command"
                   => /\ con'.last.context = "autoclaim_unsupported"
                      /\ ~con.tickFailed
             /\ con.tickFailed
                   => /\ con'.last.issued = ""
                      /\ con'.last.context = ""]_vars

\* ---- C33 ---------------------------------------------------------------
\* When an error escapes a _runLoop activation, the step leaves the flag
\* clear and the interval cleared, removes that activation only and emits
\* one 'error' event, with context "fatal_loop_error"; and as the interval
\* callback fires and XAUTOCLAIM is issued only while the flag is set, no
\* later tick issues XAUTOCLAIM (until a start() call).
C33_FatalStopsConsumer ==
    [][/\ (con' # con /\ con'.last.task = "fatal")
             => /\ ~con'.isRunning
                /\ ~con'.claimInterval
                /\ con'.last.context = "fatal_loop_error"
                /\ BagCardinality(con'.loops) = BagCardinality(con.loops) - 1
                /\ con'.tick = con.tick
                /\ UNCHANGED <<streams, groups, ticks>>
       /\ con'.claimInterval => con'.isRunning
       /\ ticks' # ticks => con.claimInterval
       /\ (con' # con /\ con'.last.issued = "XAUTOCLAIM") => con.isRunning]_vars

\* An error has just escaped the read loop of a consumer that was never
\* stopped, after an interval callback had fired, and its reclaim call is
\* still outstanding.
C33_Witness ==
    /\ con.last.task = "fatal"
    /\ ~con.everStopped
    /\ ~con.isRunning
    /\ ~con.claimInterval
    /\ con.loops = EmptyBag
    /\ ticks > 0
    /\ con.tick = "xautoclaim"

\* ---- C34 ---------------------------------------------------------------
\* Whatever start() and stop() calls are made, at most one _runLoop
\* activation of the consumer has not returned, and at most one XREADGROUP
\* of the consumer is outstanding.
C34_OneReadLoop ==
    /\ BagCardinality(con.loops) <= 1
    /\ CopiesIn("read", con.loops) <= 1

\* ---- C35 ---------------------------------------------------------------
\* After stop() has taken effect (and until a later start()), a step in
\* which a store call of the consumer completes, the XREADGROUP of a
\* _runLoop activation or the XAUTOCLAIM of the reclaim call, hands no entry
\* to the handler, and every entry that is pending stays pending.
C35_NothingHandedAfterStop ==
    [][(con' # con /\ con.stopped /\ con'.last.task \in {"loop", "tick"})
          => /\ con'.last.handed = <<>>
             /\ (ConStream \in DOMAIN groups /\ ConStream \in DOMAIN groups')
                   => DOMAIN groups[ConStream].pel
                         \subseteq DOMAIN groups'[ConStream].pel]_vars

\* ---- C36 ---------------------------------------------------------------
\* When stopAll() or QTask.stop() was called while a register call of the
\* same manager was awaiting a group creation, then, once both calls have
\* completed, the registry is empty and no Consumer of the manager runs.
C36_NothingRunsAfterStop ==
    (calls.overlap /\ calls.register.at = "done" /\ calls.stop.at = "done")
       => /\ Registry(0) = {}
          /\ \A k \in DOMAIN consumers : k[1] = 0 => ~consumers[k].isRunning

\* ---- C37 ---------------------------------------------------------------
\* Whatever connect() and disconnect() calls are made in a process, and
\* however they interleave, every client that is connected and has not ended
\* is the one redisClient refers to, the client that getClient() returns and
\* that disconnect() closes: there is never a second live client.
C37_OneLiveClient ==
    /\ Cardinality(pool.live) <= 1
    /\ \A client \in pool.live : client = pool.shared

\* ---- C38 ---------------------------------------------------------------
\* A step issues an XACK for an id only as the resumption of a listener
\* whose handler invocation for that id has returned normally: the id had
\* been handed on by the consumer, it is an entry of the consumer's own
\* partition stream, and the step changes the pending list of the group on
\* that stream only, by removing the id.
C38_AckOnlyAfterReturn ==
    [][\A id \in DOMAIN hist :
          hist'[id].xack > hist[id].xack =>
             /\ hist'[id].returned > hist[id].returned
             /\ hist'[id].threw = hist[id].threw
             /\ hist[id].handed >= 1
             /\ \E k \in DOMAIN consumers :
                   /\ BagIn(id, consumers[k].inflight)
                   /\ CopiesIn(id, consumers'[k].inflight)
                         = CopiesIn(id, consumers[k].inflight) - 1
                   /\ \E i \in DOMAIN streams[StreamOf(k[2])] :
                         streams[StreamOf(k[2])][i].id = id
                   /\ groups' = [groups EXCEPT ![StreamOf(k[2])] = Xack(@, {id})]
      ]_vars

\* An entry was handed on once, its handler returned, one XACK was issued
\* and the entry is pending nowhere, while another entry is still pending.
C38_Witness ==
    \E id \in DOMAIN hist :
        /\ hist[id].handed = 1
        /\ hist[id].returned = 1
        /\ hist[id].xack = 1
        /\ \A s \in DOMAIN groups : id \notin DOMAIN groups[s].pel
        /\ \E s \in DOMAIN groups : DOMAIN groups[s].pel # {}

\* ---- C39 ---------------------------------------------------------------
\* The step in which a handler invocation throws (its listener's catch block
\* runs) changes nothing of the Consumer but the invocation itself: the flag
\* and the interval stay set, the _runLoop activations and the reclaim call
\* stay where they are, the handler invocations of the other entries go on,
\* and nothing is acknowledged. And whatever handlers have thrown, every
\* batch that a running consumer passes to _processMessages, from a group
\* read or a reclaim tick, is handed on entry by entry.
C39_Passed(batch) ==
    SelectSeq(batch, LAMBDA id :
        \E i \in DOMAIN streams[ConStream] :
            /\ streams[ConStream][i].id = id
            /\ FieldsWellFormed(streams[ConStream][i].fields))

C39_ThrowStopsNothing ==
    /\ [][(con' # con /\ con'.last.task = "handler"
             /\ con'.last.error = "handler")
            => /\ con'.isRunning = con.isRunning
               /\ con'.claimInterval = con.claimInterval
               /\ con'.loops = con.loops
               /\ con'.tick = con.tick
               /\ \E id \in BagToSet(con.inflight) :
                     con'.inflight = con.inflight (-) SetToBag({id})
               /\ UNCHANGED <<streams, groups, ticks>>]_vars
    /\ [](con.last.task \in {"loop", "tick"}
            => con.last.handed = C39_Passed(con.last.batch))
    /\ [](con.isRunning => con.claimInterval /\ con.loops # EmptyBag)

\* A handler has just thrown for one entry of a batch of two while the
\* invocation for the other entry is in progress, and the consumer runs
\* with its interval armed and its read outstanding.
C39_Witness ==
    /\ con.last.task = "handler"
    /\ con.last.error = "handler"
    /\ con.inflight # EmptyBag
    /\ con.isRunning
    /\ con.claimInterval
    /\ BagIn("read", con.loops)

\* ---- C40 ---------------------------------------------------------------
\* An entry of a partition stream for which an instance has registered (the
\* instance holds a running Consumer on that stream), whether the entry was
\* appended before or after register, is eventually handed to a handler;
\* and the step that hands an entry on is a step of a Consumer of the
\* entry's stream, held by a process that was assigned that partition.
C40_Owners(id) ==
    {k \in DOMAIN consumers :
        /\ consumers[k].isRunning
        /\ StreamOf(k[2]) \in DOMAIN streams
        /\ \E i \in DOMAIN streams[StreamOf(k[2])] :
              streams[StreamOf(k[2])][i].id = id}

C40_EveryEntryHanded ==
    /\ \A id \in 1 .. MaxEntries :
          (id \in DOMAIN hist /\ C40_Owners(id) # {})
             ~> (id \in DOMAIN hist /\ hist[id].handed >= 1)
    /\ [][\A id \in DOMAIN hist :
             hist'[id].handed > hist[id].handed =>
                \E k \in C40_Owners(id) :
                    /\ k[1] \in DOMAIN fleet
                    /\ k[2] \in IdSet(AssignedIndices(
                                   fleet[k[1]].instanceId,
                                   fleet[k[1]].instanceCount,
                                   totalPartitions).indices)
                    /\ \/ consumers[k].read = "replied"
                          /\ consumers'[k].read = "blocked"
                          /\ id \in {consumers[k].batch[i].id :
                                        i \in DOMAIN consumers[k].batch}
                       \/ consumers[k].claim = "replied"
                          /\ consumers'[k].claim = "idle"
                          /\ id \in {consumers[k].claimed[i].id :
                                        i \in DOMAIN consumers[k].claimed}
         ]_vars

\* Two processes have registered for the same partition (the second XGROUP
\* CREATE was answered BUSYGROUP) and two entries of its stream have been
\* handed on by group reads, one by the Consumer of each process; no
\* reclaim tick has claimed them.
C40_Witness ==
    \E k1, k2 \in DOMAIN consumers :
        /\ k1[1] # k2[1]
        /\ k1[2] = k2[2]
        /\ consumers[k1].readLog = << <<1>> >>
        /\ consumers[k2].readLog = << <<2>> >>
        /\ hist[1].handed = 1 /\ hist[1].claimed = 0
        /\ hist[2].handed = 1 /\ hist[2].claimed = 0

====
